---- MODULE Spec2Model ----
(***************************************************************************)
(* ReportStorage (juxlib/storage/filesystem.py): the content-addressed     *)
(* store with its two partitions, reports/ (Committed) and queue/          *)
(* (Queued).  The filesystem is modelled at the level of the system calls  *)
(* the handlers make; every handler is a small machine over those calls    *)
(* (one pc label per call), so that the same definitions give the handler  *)
(* run to completion (Spec), the handler cut by a process crash            *)
(* (SpecCrash, SpecWrite), two clients interleaved system call by system   *)
(* call (SpecOnce) and the handler in which one system call of the atomic  *)
(* write fails (SpecFault).                                                *)
(*                                                                         *)
(* juxlib/signing (xml.py, keys.py, signer.py, verifier.py): the document  *)
(* tree, its canonical form and hash, key and certificate loading, the     *)
(* enveloped signature and its verification, as functions of their         *)
(* arguments, applied by one caller to one tree (SpecSign).                *)
(*                                                                         *)
(* juxlib/config (schema.py, manager.py): the ConfigurationManager, its    *)
(* values and their recorded sources under set() and the four batch        *)
(* loaders, called in any order by one caller (SpecConfig).                *)
(***************************************************************************)
EXTENDS Integers, Sequences, FiniteSets, TLC

\* ------------------------------------------------------------------ bounds

\* Last value of the clock that stamps st_mtime.
MaxClock == 1
\* Process crashes in one behaviour of SpecCrash / SpecWrite.
MaxCrashes == 1

\* ------------------------------------------------------------------ inputs

\* Content hashes the callers pass (hex digests: no separator, no dot).
Hashes == {"h1", "h2"}
\* The one hash the interleaved clients contend for.
ConcHashes == {"h1"}
\* An artifact of n bytes; no artifact is a proper prefix of another, so a
\* partially written artifact is never mistaken for a complete one.
Blob(n) == [i \in 1..n |-> n]
Contents == {Blob(1), Blob(2)}
Procs == {1, 2}
\* Names mkstemp can hand out (".tmp_" + random + ".tmp"), in the order tried.
TempStems == <<".tmp_a", ".tmp_b", ".tmp_c", ".tmp_d">>

VARIABLES
    fs,       \* fs[dir][name]: the files of reports/ and queue/
    now,      \* the clock st_mtime is taken from
    ps,       \* ps[p]: the call client p is in; at pc "done", its outcome
    fs0,      \* the files the behaviour started from
    crashes,  \* process crashes so far
    crashed,  \* the call the last crash cut, with the pc it was cut at
    sx,       \* the signing client: its document tree and its last call
    cfg       \* the ConfigurationManager, and its caller's last call

\* The store and its clients; the caller of the signing functions.
storeVars == <<fs, fs0, now, ps, crashes, crashed>>
libVars == <<sx, cfg>>
vars == <<fs, fs0, now, ps, crashes, crashed, sx, cfg>>

\* ------------------------------------------------------- program constants

Dirs == {"reports", "queue"}
\* mode: int = 0o600
DefaultMode == 384
\* tempfile.mkstemp creates its file with mode 0o600
MkstempMode == 384
\* platform.system()
Platform == "Linux"
\* Python's None, where the other values are records
None == [none |-> TRUE]
\* no hash argument (the bulk operations)
NoHash == "-"
\* The signing client before its first call: no tree loaded, nothing called.
NoCall == [op |-> "-", status |-> "-", value |-> None, arg |-> None]
SxInit == [tree |-> None, call |-> NoCall, validated |-> None, tampered |-> FALSE]

\* ----------------------------------------------------------------- paths

\* Hash strings with path components: "<partition>/../<dir>/<stem>.xml" is
\* the file <stem>.xml of <dir>, whichever partition the path starts in.
Traversal ==
    [h \in {"../queue/h1", "../reports/h1"} |->
        IF h = "../queue/h1" THEN [dir |-> "queue", stem |-> "h1"]
        ELSE [dir |-> "reports", stem |-> "h1"]]
\* The file the system resolves f"{partition}/{canonical_hash}.xml" to.
Resolve(partition, h) ==
    IF h \in DOMAIN Traversal
    THEN [dir |-> Traversal[h].dir, name |-> [stem |-> Traversal[h].stem, ext |-> "xml"]]
    ELSE [dir |-> partition, name |-> [stem |-> h, ext |-> "xml"]]
\* self.storage_path / "reports" / f"{canonical_hash}.xml"
ReportFile(h) == Resolve("reports", h)
\* self.storage_path / "queue" / f"{canonical_hash}.xml"
QueueFile(h) == Resolve("queue", h)
\* Path.stem: the name without its last suffix; a name that is only a
\* leading dot and letters (".xml") has no suffix and is its own stem.
Stem(name) == IF name.stem = "" THEN "." \o name.ext ELSE name.stem
TempName(i) == [stem |-> TempStems[i], ext |-> "tmp"]
NoPath == [dir |-> "-", name |-> None]

\* ------------------------------------------------------------ system calls

\* Path.exists() / Path.is_file(): every entry is a regular file
PathExists(F, path) == path.name \in DOMAIN F[path.dir]
\* Path.read_bytes() of an existing file
ReadBytes(F, path) == F[path.dir][path.name].data
\* Path.stat()
Stat(F, path) ==
    [st_size |-> Len(F[path.dir][path.name].data),
     st_mtime |-> F[path.dir][path.name].mtime,
     st_mode |-> F[path.dir][path.name].mode]
\* dir.glob("*.xml"), as a list without repetition
RECURSIVE SeqOf(_)
SeqOf(S) == IF S = {} THEN <<>>
            ELSE LET x == CHOOSE y \in S : TRUE IN <<x>> \o SeqOf(S \ {x})
Glob(F, dir, ext) == SeqOf({n \in DOMAIN F[dir] : n.ext = ext})
\* the entry `name` of `dir` set to file `f`
PutFile(F, dir, name, f) ==
    [F EXCEPT ![dir] = [n \in DOMAIN F[dir] \cup {name} |->
                          IF n = name THEN f ELSE F[dir][n]]]
\* Path.unlink() of an existing file
Unlink(F, path) ==
    [F EXCEPT ![path.dir] = [n \in DOMAIN F[path.dir] \ {path.name} |-> F[path.dir][n]]]
\* tempfile.mkstemp(dir=path.parent, prefix=".tmp_", suffix=".tmp"): the name
MkstempName(F, dir) ==
    TempName(CHOOSE i \in 1..Len(TempStems) :
                /\ TempName(i) \notin DOMAIN F[dir]
                /\ \A j \in 1..(i - 1) : TempName(j) \in DOMAIN F[dir])
\* tempfile.mkstemp: the empty file it creates (O_CREAT | O_EXCL, 0o600)
Mkstemp(F, dir, t) ==
    PutFile(F, dir, MkstempName(F, dir), [data |-> <<>>, mode |-> MkstempMode, mtime |-> t])
\* os.write(fd, content), one byte of it reaching the file
WriteByte(F, path, b, t) ==
    PutFile(F, path.dir, path.name,
            [F[path.dir][path.name] EXCEPT !.data = Append(@, b), !.mtime = t])
\* Mutant of Chmod: the artifact made readable by group and others (0o644).
ChmodWide(F, path, mode) ==
    PutFile(F, path.dir, path.name, [F[path.dir][path.name] EXCEPT !.mode = 420])
\* temp_path.chmod(mode)
Chmod(F, path, mode) ==
    PutFile(F, path.dir, path.name, [F[path.dir][path.name] EXCEPT !.mode = mode])
\* Mutant of Replace: a rename that fails to replace an existing target
\* silently (the temporary file is dropped, the old artifact stays).
ReplaceKeepExisting(F, src, dst) ==
    IF PathExists(F, dst) THEN Unlink(F, src)
    ELSE Unlink(PutFile(F, dst.dir, dst.name, F[src.dir][src.name]), src)
\* temp_path.replace(path): rename(2), the target entry switched in one step
Replace(F, src, dst) ==
    Unlink(PutFile(F, dst.dir, dst.name, F[src.dir][src.name]), src)

\* ------------------------------------------------------------- call frames

EmptyStats == [total_reports |-> 0, queued_reports |-> 0, total_size |-> 0,
               oldest_report |-> None]
\* A client outside any call.
Idle ==
    [op |-> "-", pc |-> "idle", h |-> NoHash, content |-> <<>>,
     target |-> NoPath, tmp |-> NoPath, fd |-> FALSE, n |-> 0, buf |-> <<>>,
     files |-> <<>>, idx |-> 0, stats |-> EmptyStats, oldest |-> None,
     count |-> 0, out |-> <<>>, status |-> "-", value |-> None, fault |-> "-"]
\* The frame of a call op(content, h) at its first system call.
Begin(op, h, c, pc) == [Idle EXCEPT !.op = op, !.h = h, !.content = c, !.pc = pc]
\* The call returned `value`.
Return(s, value) ==
    [Idle EXCEPT !.op = s.op, !.h = s.h, !.content = s.content, !.pc = "done",
                 !.status = "ok", !.value = value, !.fd = s.fd, !.fault = s.fault]
\* The call raised the exception `kind`, constructed with `arg`.
Raise(s, kind, arg) ==
    [Idle EXCEPT !.op = s.op, !.h = s.h, !.content = s.content, !.pc = "done",
                 !.status = kind, !.value = arg, !.fd = s.fd, !.fault = s.fault]

\* --------------------------------------------------------------- handlers
\* Each handler is a function from (frame, filesystem, clock) to the frame
\* and filesystem after its next system call.

\* Mutant of AfterWrite: dequeue_report returns after store_report, the
\* queue entry never removed.
AfterWriteNoUnlink(s) == Return(s, None)
\* where _write_file_atomic returns to: dequeue_report goes on to unlink
AfterWrite(s) ==
    IF s.op = "dequeue_report" THEN [s EXCEPT !.pc = "unlink", !.tmp = NoPath, !.n = 0]
    ELSE Return(s, None)

\* Mutant of WriteFileAtomicStep: the content written straight into the
\* target path (open(path, "wb")), no temporary file and no rename.
WriteFileInPlaceStep(s, F, t) ==
    CASE s.pc = "mkstemp" ->
           [s |-> [s EXCEPT !.pc = "write", !.fd = TRUE, !.tmp = s.target],
            F |-> PutFile(F, s.target.dir, s.target.name,
                          [data |-> <<>>, mode |-> MkstempMode, mtime |-> t])]
      [] s.pc = "write" ->
           IF s.n < Len(s.buf)
           THEN [s |-> [s EXCEPT !.n = s.n + 1,
                                 !.pc = IF s.n + 1 = Len(s.buf) THEN "close" ELSE "write"],
                 F |-> WriteByte(F, s.tmp, s.buf[s.n + 1], t)]
           ELSE [s |-> [s EXCEPT !.pc = "close"], F |-> F]
      [] s.pc = "close" ->
           [s |-> [s EXCEPT !.fd = FALSE, !.pc = "chmod"], F |-> F]
      [] s.pc = "chmod" ->
           [s |-> [s EXCEPT !.pc = "replace"], F |-> Chmod(F, s.tmp, DefaultMode)]
      [] s.pc = "replace" ->
           [s |-> AfterWrite(s), F |-> F]
\* The system call the frame is at is the one that fails in this call
\* (s.fault: "mkstemp", "write", "chmod", "replace", or "-" for none).
Fails(s) == s.fault = s.pc
\* Mutant of WriteFileCleanup: the error is raised, the temporary file left.
WriteFileCleanupKeepTemp(s, F) ==
    [s |-> Raise(s, "StorageWriteError", s.target), F |-> F]
\* except Exception: with contextlib.suppress(OSError): temp_path.unlink();
\* raise -- and the outer handler's StorageWriteError(path, str(e)).  The
\* descriptor is left as it is.
WriteFileCleanup(s, F) ==
    [s |-> Raise(s, "StorageWriteError", s.target),
     F |-> IF PathExists(F, s.tmp) THEN Unlink(F, s.tmp) ELSE F]
\* _write_file_atomic(path, content, mode), path = s.target
WriteFileAtomicStep(s, F, t) ==
    CASE s.pc = "mkstemp" ->
           IF Fails(s) THEN [s |-> Raise(s, "StorageWriteError", s.target), F |-> F]
           ELSE
           [s |-> [s EXCEPT !.pc = "write", !.fd = TRUE,
                            !.tmp = [dir |-> s.target.dir,
                                     name |-> MkstempName(F, s.target.dir)]],
            F |-> Mkstemp(F, s.target.dir, t)]
      [] s.pc = "write" ->
           IF Fails(s) THEN [s |-> [s EXCEPT !.pc = "cleanup"], F |-> F]
           ELSE IF s.n < Len(s.buf)
           THEN [s |-> [s EXCEPT !.n = s.n + 1,
                                 !.pc = IF s.n + 1 = Len(s.buf) THEN "close" ELSE "write"],
                 F |-> WriteByte(F, s.tmp, s.buf[s.n + 1], t)]
           ELSE [s |-> [s EXCEPT !.pc = "close"], F |-> F]
      [] s.pc = "close" ->
           [s |-> [s EXCEPT !.fd = FALSE,
                            !.pc = IF Platform # "Windows" THEN "chmod" ELSE "replace"],
            F |-> F]
      [] s.pc = "chmod" ->
           IF Fails(s) THEN [s |-> [s EXCEPT !.pc = "cleanup"], F |-> F]
           ELSE [s |-> [s EXCEPT !.pc = "replace"], F |-> Chmod(F, s.tmp, DefaultMode)]
      [] s.pc = "replace" ->
           IF Fails(s) THEN [s |-> [s EXCEPT !.pc = "cleanup"], F |-> F]
           ELSE [s |-> AfterWrite(s), F |-> Replace(F, s.tmp, s.target)]
      [] s.pc = "cleanup" -> WriteFileCleanup(s, F)

\* store_report(xml_content, canonical_hash)
StoreReportBegin(h, c) ==
    [Begin("store_report", h, c, "mkstemp") EXCEPT !.target = ReportFile(h), !.buf = c]
StoreReportStep(s, F, t) == WriteFileAtomicStep(s, F, t)

\* queue_report(xml_content, canonical_hash)
QueueReportBegin(h, c) ==
    [Begin("queue_report", h, c, "mkstemp") EXCEPT !.target = QueueFile(h), !.buf = c]
QueueReportStep(s, F, t) == WriteFileAtomicStep(s, F, t)

\* get_report(canonical_hash)
GetReportBegin(h) == Begin("get_report", h, <<>>, "exists")
GetReportStep(s, F, t) ==
    CASE s.pc = "exists" ->
           IF ~PathExists(F, ReportFile(s.h))
           THEN [s |-> Raise(s, "ReportNotFoundError", s.h), F |-> F]
           ELSE [s |-> [s EXCEPT !.pc = "read"], F |-> F]
      [] s.pc = "read" ->
           IF PathExists(F, ReportFile(s.h))
           THEN [s |-> Return(s, ReadBytes(F, ReportFile(s.h))), F |-> F]
           ELSE [s |-> Raise(s, "StorageWriteError", ReportFile(s.h)), F |-> F]

\* get_queued_report(canonical_hash)
GetQueuedReportBegin(h) == Begin("get_queued_report", h, <<>>, "exists")
GetQueuedReportStep(s, F, t) ==
    CASE s.pc = "exists" ->
           IF ~PathExists(F, QueueFile(s.h))
           THEN [s |-> Raise(s, "QueuedReportNotFoundError", s.h), F |-> F]
           ELSE [s |-> [s EXCEPT !.pc = "read"], F |-> F]
      [] s.pc = "read" ->
           IF PathExists(F, QueueFile(s.h))
           THEN [s |-> Return(s, ReadBytes(F, QueueFile(s.h))), F |-> F]
           ELSE [s |-> Raise(s, "StorageWriteError", QueueFile(s.h)), F |-> F]

\* dequeue_report(canonical_hash)
DequeueReportBegin(h) == Begin("dequeue_report", h, <<>>, "exists")
\* Mutant of DequeueExists: a hash that is already committed is refused.
DequeueExistsRefuseStored(s, F) ==
    IF ~PathExists(F, QueueFile(s.h))
    THEN [s |-> Raise(s, "QueuedReportNotFoundError", s.h), F |-> F]
    ELSE IF PathExists(F, ReportFile(s.h))
    THEN [s |-> Raise(s, "StorageWriteError", ReportFile(s.h)), F |-> F]
    ELSE [s |-> [s EXCEPT !.pc = "read"], F |-> F]
\* Mutant of DequeueExists: a hash that is not queued but already committed
\* counts as promoted, and the call returns.
DequeueExistsAcceptStored(s, F) ==
    IF PathExists(F, QueueFile(s.h)) THEN [s |-> [s EXCEPT !.pc = "read"], F |-> F]
    ELSE IF PathExists(F, ReportFile(s.h)) THEN [s |-> Return(s, None), F |-> F]
    ELSE [s |-> Raise(s, "QueuedReportNotFoundError", s.h), F |-> F]
\* if not queue_file.exists(): raise QueuedReportNotFoundError(canonical_hash)
DequeueExists(s, F) ==
    IF ~PathExists(F, QueueFile(s.h))
    THEN [s |-> Raise(s, "QueuedReportNotFoundError", s.h), F |-> F]
    ELSE [s |-> [s EXCEPT !.pc = "read"], F |-> F]
\* Mutant of DequeueRead: the queue entry is removed as soon as it is read,
\* before the write into reports/.
DequeueReadThenUnlink(s, F) ==
    IF PathExists(F, QueueFile(s.h))
    THEN [s |-> [s EXCEPT !.pc = "mkstemp", !.buf = ReadBytes(F, QueueFile(s.h)),
                          !.target = ReportFile(s.h)],
          F |-> Unlink(F, QueueFile(s.h))]
    ELSE [s |-> Raise(s, "StorageWriteError", QueueFile(s.h)), F |-> F]
\* xml_content = queue_file.read_bytes(), then into store_report
DequeueRead(s, F) ==
    IF PathExists(F, QueueFile(s.h))
    THEN [s |-> [s EXCEPT !.pc = "mkstemp", !.buf = ReadBytes(F, QueueFile(s.h)),
                          !.target = ReportFile(s.h)],
          F |-> F]
    ELSE [s |-> Raise(s, "StorageWriteError", QueueFile(s.h)), F |-> F]
\* Mutant of DequeueUnlink: queue_file.unlink(missing_ok=True)
DequeueUnlinkMissingOk(s, F) ==
    IF PathExists(F, QueueFile(s.h))
    THEN [s |-> Return(s, None), F |-> Unlink(F, QueueFile(s.h))]
    ELSE [s |-> Return(s, None), F |-> F]
\* queue_file.unlink(); a FileNotFoundError is re-raised as StorageWriteError
DequeueUnlink(s, F) ==
    IF PathExists(F, QueueFile(s.h))
    THEN [s |-> Return(s, None), F |-> Unlink(F, QueueFile(s.h))]
    ELSE [s |-> Raise(s, "StorageWriteError", QueueFile(s.h)), F |-> F]
DequeueReportStep(s, F, t) ==
    CASE s.pc = "exists" -> DequeueExists(s, F)
      [] s.pc = "read" -> DequeueRead(s, F)
      [] s.pc = "unlink" -> DequeueUnlink(s, F)
      [] OTHER -> WriteFileAtomicStep(s, F, t)

\* Mutant of DeleteReportStep: unlink() without missing_ok=True.
DeleteReportStrict(s, F, t) ==
    IF PathExists(F, ReportFile(s.h))
    THEN [s |-> Return(s, None), F |-> Unlink(F, ReportFile(s.h))]
    ELSE [s |-> Raise(s, "FileNotFoundError", ReportFile(s.h)), F |-> F]
\* delete_report(canonical_hash)
DeleteReportBegin(h) == Begin("delete_report", h, <<>>, "unlink")
DeleteReportStep(s, F, t) ==
    [s |-> Return(s, None),
     F |-> IF PathExists(F, ReportFile(s.h)) THEN Unlink(F, ReportFile(s.h)) ELSE F]

\* delete_queued_report(canonical_hash)
DeleteQueuedReportBegin(h) == Begin("delete_queued_report", h, <<>>, "unlink")
DeleteQueuedReportStep(s, F, t) ==
    [s |-> Return(s, None),
     F |-> IF PathExists(F, QueueFile(s.h)) THEN Unlink(F, QueueFile(s.h)) ELSE F]

\* report_exists(canonical_hash)
ReportExistsBegin(h) == Begin("report_exists", h, <<>>, "exists")
ReportExistsStep(s, F, t) == [s |-> Return(s, PathExists(F, ReportFile(s.h))), F |-> F]

\* queued_report_exists(canonical_hash)
QueuedReportExistsBegin(h) == Begin("queued_report_exists", h, <<>>, "exists")
QueuedReportExistsStep(s, F, t) ==
    [s |-> Return(s, PathExists(F, QueueFile(s.h))), F |-> F]

\* list_reports() / list_queued_reports() over the directory `dir`:
\* [f.stem for f in dir.glob("*.xml") if f.is_file() and f.stem != ""]
ListStep(s, F, dir) ==
    CASE s.pc = "glob" ->
           LET files == Glob(F, dir, "xml") IN
           IF files = <<>> THEN [s |-> Return(s, <<>>), F |-> F]
           ELSE [s |-> [s EXCEPT !.pc = "is_file", !.files = files, !.idx = 1], F |-> F]
      [] s.pc = "is_file" ->
           LET f == s.files[s.idx]
               out == IF PathExists(F, [dir |-> dir, name |-> f]) /\ Stem(f) # ""
                      THEN Append(s.out, Stem(f)) ELSE s.out
           IN IF s.idx = Len(s.files) THEN [s |-> Return(s, out), F |-> F]
              ELSE [s |-> [s EXCEPT !.idx = s.idx + 1, !.out = out], F |-> F]

\* list_reports()
ListReportsBegin == Begin("list_reports", NoHash, <<>>, "glob")
ListReportsStep(s, F, t) == ListStep(s, F, "reports")

\* list_queued_reports()
ListQueuedReportsBegin == Begin("list_queued_reports", NoHash, <<>>, "glob")
ListQueuedReportsStep(s, F, t) == ListStep(s, F, "queue")

\* Mutant of ClearStep: returns from inside the loop, after the first file.
ClearStepFirstOnly(s, F, dir) ==
    CASE s.pc = "glob" ->
           LET files == Glob(F, dir, "xml") IN
           IF files = <<>> THEN [s |-> Return(s, 0), F |-> F]
           ELSE [s |-> [s EXCEPT !.pc = "unlink", !.files = files, !.idx = 1], F |-> F]
      [] s.pc = "unlink" ->
           LET f == [dir |-> dir, name |-> s.files[s.idx]] IN
           [s |-> Return(s, 1), F |-> Unlink(F, f)]

\* clear_reports() / clear_queue() over the directory `dir`
ClearStep(s, F, dir) ==
    LET next(s1) == IF s1.idx = Len(s1.files) THEN Return(s1, s1.count)
                    ELSE [s1 EXCEPT !.idx = s1.idx + 1, !.pc = "is_file"]
    IN
    CASE s.pc = "glob" ->
           LET files == Glob(F, dir, "xml") IN
           IF files = <<>> THEN [s |-> Return(s, 0), F |-> F]
           ELSE [s |-> [s EXCEPT !.pc = "is_file", !.files = files, !.idx = 1], F |-> F]
      [] s.pc = "is_file" ->
           IF PathExists(F, [dir |-> dir, name |-> s.files[s.idx]])
           THEN [s |-> [s EXCEPT !.pc = "unlink"], F |-> F]
           ELSE [s |-> next(s), F |-> F]
      [] s.pc = "unlink" ->
           LET f == [dir |-> dir, name |-> s.files[s.idx]] IN
           IF PathExists(F, f)
           THEN [s |-> next([s EXCEPT !.count = s.count + 1]), F |-> Unlink(F, f)]
           ELSE [s |-> Raise(s, "FileNotFoundError", f), F |-> F]

\* clear_reports()
ClearReportsBegin == Begin("clear_reports", NoHash, <<>>, "glob")
ClearReportsStep(s, F, t) == ClearStep(s, F, "reports")

\* clear_queue()
ClearQueueBegin == Begin("clear_queue", NoHash, <<>>, "glob")
ClearQueueStep(s, F, t) == ClearStep(s, F, "queue")

\* datetime.fromtimestamp(st_mtime).isoformat()
IsoFormat(mtime) == [isoformat |-> mtime]

\* Mutant of AddSize: "=" for "+=".
AddSizeOverwrite(stats, st) == [stats EXCEPT !.total_size = st.st_size]
\* Mutant of Older: max() for min().
Newer(m, best) == m > best
\* stats["total_size"] += f.stat().st_size
AddSize(stats, st) == [stats EXCEPT !.total_size = @ + st.st_size]
\* min(..., key=...): whether key m replaces the smallest key so far
Older(m, best) == m < best

\* get_stats()
GetStatsBegin == Begin("get_stats", NoHash, <<>>, "glob_reports")
GetStatsStep(s, F, t) ==
    LET f == [dir |-> IF s.pc \in {"is_file_q", "stat_q"} THEN "queue" ELSE "reports",
              name |-> IF s.pc = "oldest_stat" THEN s.oldest.name ELSE s.files[s.idx]]
        \* the size loop over report_files is over: `if report_files:` holds here
        toMin(s1) == [s1 EXCEPT !.pc = "min", !.idx = 1, !.oldest = None]
        toQueue(s1) == [s1 EXCEPT !.pc = "glob_queue", !.files = <<>>, !.idx = 0,
                                  !.oldest = None]
        nextR(s1) == IF s1.idx = Len(s1.files) THEN toMin(s1)
                     ELSE [s1 EXCEPT !.idx = s1.idx + 1, !.pc = "is_file_r"]
        nextQ(s1) == IF s1.idx = Len(s1.files) THEN Return(s1, s1.stats)
                     ELSE [s1 EXCEPT !.idx = s1.idx + 1, !.pc = "is_file_q"]
    IN
    CASE s.pc = "glob_reports" ->
           LET files == Glob(F, "reports", "xml")
               s1 == [s EXCEPT !.stats.total_reports = Len(files), !.files = files]
           IN IF files = <<>> THEN [s |-> toQueue(s1), F |-> F]
              ELSE [s |-> [s1 EXCEPT !.pc = "is_file_r", !.idx = 1], F |-> F]
      [] s.pc = "is_file_r" ->
           IF PathExists(F, f) THEN [s |-> [s EXCEPT !.pc = "stat_r"], F |-> F]
           ELSE [s |-> nextR(s), F |-> F]
      [] s.pc = "stat_r" ->
           IF PathExists(F, f)
           THEN [s |-> nextR([s EXCEPT !.stats = AddSize(@, Stat(F, f))]),
                 F |-> F]
           ELSE [s |-> Raise(s, "FileNotFoundError", f), F |-> F]
      [] s.pc = "min" ->
           \* min(report_files, key=lambda f: f.stat().st_mtime): the first smallest
           IF ~PathExists(F, f) THEN [s |-> Raise(s, "FileNotFoundError", f), F |-> F]
           ELSE LET m == Stat(F, f).st_mtime
                    best == IF s.idx = 1 \/ Older(m, s.oldest.key)
                            THEN [name |-> f.name, key |-> m] ELSE s.oldest
                IN [s |-> [s EXCEPT !.oldest = best,
                                    !.idx = IF s.idx = Len(s.files) THEN s.idx ELSE s.idx + 1,
                                    !.pc = IF s.idx = Len(s.files) THEN "oldest_stat" ELSE "min"],
                    F |-> F]
      [] s.pc = "oldest_stat" ->
           IF ~PathExists(F, f) THEN [s |-> Raise(s, "FileNotFoundError", f), F |-> F]
           ELSE [s |-> toQueue([s EXCEPT !.stats.oldest_report =
                                            IsoFormat(Stat(F, f).st_mtime)]),
                 F |-> F]
      [] s.pc = "glob_queue" ->
           LET files == Glob(F, "queue", "xml")
               s1 == [s EXCEPT !.stats.queued_reports = Len(files), !.files = files]
           IN IF files = <<>> THEN [s |-> Return(s1, s1.stats), F |-> F]
              ELSE [s |-> [s1 EXCEPT !.pc = "is_file_q", !.idx = 1], F |-> F]
      [] s.pc = "is_file_q" ->
           IF PathExists(F, f) THEN [s |-> [s EXCEPT !.pc = "stat_q"], F |-> F]
           ELSE [s |-> nextQ(s), F |-> F]
      [] s.pc = "stat_q" ->
           IF PathExists(F, f)
           THEN [s |-> nextQ([s EXCEPT !.stats = AddSize(@, Stat(F, f))]),
                 F |-> F]
           ELSE [s |-> Raise(s, "FileNotFoundError", f), F |-> F]

\* ------------------------------------------------------------- the clients

\* The public methods of ReportStorage.
HashOps == {"get_report", "get_queued_report", "dequeue_report", "delete_report",
            "delete_queued_report", "report_exists", "queued_report_exists"}
WriteOps == {"store_report", "queue_report"}
BulkOps == {"list_reports", "list_queued_reports", "get_stats", "clear_reports",
            "clear_queue"}

\* The frame of the call op(c, h) on entry.
Call(op, h, c) ==
    CASE op = "store_report" -> StoreReportBegin(h, c)
      [] op = "queue_report" -> QueueReportBegin(h, c)
      [] op = "get_report" -> GetReportBegin(h)
      [] op = "get_queued_report" -> GetQueuedReportBegin(h)
      [] op = "dequeue_report" -> DequeueReportBegin(h)
      [] op = "delete_report" -> DeleteReportBegin(h)
      [] op = "delete_queued_report" -> DeleteQueuedReportBegin(h)
      [] op = "report_exists" -> ReportExistsBegin(h)
      [] op = "queued_report_exists" -> QueuedReportExistsBegin(h)
      [] op = "list_reports" -> ListReportsBegin
      [] op = "list_queued_reports" -> ListQueuedReportsBegin
      [] op = "clear_reports" -> ClearReportsBegin
      [] op = "clear_queue" -> ClearQueueBegin
      [] op = "get_stats" -> GetStatsBegin

\* The next system call of the call in frame s.
Step(s, F, t) ==
    CASE s.op = "store_report" -> StoreReportStep(s, F, t)
      [] s.op = "queue_report" -> QueueReportStep(s, F, t)
      [] s.op = "get_report" -> GetReportStep(s, F, t)
      [] s.op = "get_queued_report" -> GetQueuedReportStep(s, F, t)
      [] s.op = "dequeue_report" -> DequeueReportStep(s, F, t)
      [] s.op = "delete_report" -> DeleteReportStep(s, F, t)
      [] s.op = "delete_queued_report" -> DeleteQueuedReportStep(s, F, t)
      [] s.op = "report_exists" -> ReportExistsStep(s, F, t)
      [] s.op = "queued_report_exists" -> QueuedReportExistsStep(s, F, t)
      [] s.op = "list_reports" -> ListReportsStep(s, F, t)
      [] s.op = "list_queued_reports" -> ListQueuedReportsStep(s, F, t)
      [] s.op = "clear_reports" -> ClearReportsStep(s, F, t)
      [] s.op = "clear_queue" -> ClearQueueStep(s, F, t)
      [] s.op = "get_stats" -> GetStatsStep(s, F, t)

\* The call in frame s run to its return or raise, nothing interleaved.
RECURSIVE Run(_, _, _)
Run(s, F, t) == IF s.pc = "done" THEN [s |-> s, F |-> F]
                ELSE LET Go(r) == Run(r.s, r.F, t) IN Go(Step(s, F, t))

\* -------------------------------------------------------- config/schema.py

\* A configuration value with its Python type; an int is written in decimal,
\* a bool as Python prints it.
Value(t, v) == [t |-> t, v |-> v]
\* ConfigSchema._SCHEMA, two of its fields, in the order of the dictionary.
SchemaKeys == <<"jux_enabled", "jux_api_timeout">>
ConfigSchema ==
    [key \in {"jux_enabled", "jux_api_timeout"} |->
        IF key = "jux_enabled"
        THEN [type |-> "bool", default |-> Value("bool", "False")]
        ELSE [type |-> "int", default |-> Value("int", "30")]]
\* The source recorded for a key: "default", "explicit", "dict",
\* "env:<VAR>", "file:<path>", "toml:<path>".
Source(kind, of) == [kind |-> kind, of |-> of]
\* ConfigurationManager.__init__ / _load_defaults: _config and _sources.
LoadDefaults ==
    [config |-> [key \in DOMAIN ConfigSchema |-> ConfigSchema[key].default],
     sources |-> [key \in DOMAIN ConfigSchema |-> Source("default", "-")]]
\* The precedence of a source: set() > load_from_dict > environment >
\* configuration files > schema defaults.
Precedence(kind) ==
    CASE kind = "explicit" -> 4 [] kind = "dict" -> 3 [] kind = "env" -> 2
      [] kind \in {"file", "toml"} -> 1 [] OTHER -> 0
\* The manager after construction.  best[key] is a history variable: the
\* highest precedence at which a valid value was supplied for the key so
\* far, and the latest value supplied at that precedence.
CfgInit ==
    [config |-> LoadDefaults.config, sources |-> LoadDefaults.sources,
     best |-> [key \in DOMAIN ConfigSchema |->
                 [level |-> 0, value |-> ConfigSchema[key].default]],
     call |-> NoCall]

\* ReportStorage.__init__ on a fresh storage_path: both directories, empty.
Init ==
    /\ fs = [d \in Dirs |-> <<>>]
    /\ fs0 = fs
    /\ now = 0
    /\ ps = [p \in Procs |-> Idle]
    /\ crashes = 0
    /\ crashed = [op |-> "-", pc |-> "idle", h |-> NoHash]
    /\ sx = SxInit
    /\ cfg = CfgInit

\* Time passes.
Tick ==
    /\ now < MaxClock
    /\ now' = now + 1
    /\ UNCHANGED <<fs, fs0, ps, crashes, crashed>>
    /\ UNCHANGED libVars

\* ---- one client, every call run to completion

Do(op, h, c) ==
    \E r \in {Run(Call(op, h, c), fs, now)} :
    /\ fs' = r.F
    /\ ps' = [ps EXCEPT ![1] = r.s]
    /\ UNCHANGED <<fs0, now, crashes, crashed>>
    /\ UNCHANGED libVars

StoreReport == \E h \in Hashes, c \in Contents : Do("store_report", h, c)
QueueReport == \E h \in Hashes, c \in Contents : Do("queue_report", h, c)
GetReport == \E h \in Hashes : Do("get_report", h, <<>>)
GetQueuedReport == \E h \in Hashes : Do("get_queued_report", h, <<>>)
DequeueReport == \E h \in Hashes : Do("dequeue_report", h, <<>>)
DeleteReport == \E h \in Hashes : Do("delete_report", h, <<>>)
DeleteQueuedReport == \E h \in Hashes : Do("delete_queued_report", h, <<>>)
ReportExists == \E h \in Hashes : Do("report_exists", h, <<>>)
QueuedReportExists == \E h \in Hashes : Do("queued_report_exists", h, <<>>)
ListReports == Do("list_reports", NoHash, <<>>)
ListQueuedReports == Do("list_queued_reports", NoHash, <<>>)
GetStats == Do("get_stats", NoHash, <<>>)
ClearReports == Do("clear_reports", NoHash, <<>>)
ClearQueue == Do("clear_queue", NoHash, <<>>)

Next ==
    \/ StoreReport \/ QueueReport \/ GetReport \/ GetQueuedReport
    \/ DequeueReport \/ DeleteReport \/ DeleteQueuedReport
    \/ ReportExists \/ QueuedReportExists
    \/ ListReports \/ ListQueuedReports \/ GetStats
    \/ ClearReports \/ ClearQueue
    \/ Tick

Spec == Init /\ [][Next]_vars

\* ---- clients that take one system call at a time

Running(p) == ps[p].pc \notin {"idle", "done"}

\* Client p enters a call of one of Ops on a hash of H.
Invoke(p, H, Ops) ==
    /\ ~Running(p)
    /\ \E op \in Ops :
       \E h \in (IF op \in BulkOps THEN {NoHash} ELSE H) :
       \E c \in (IF op \in WriteOps THEN Contents ELSE {<<>>}) :
          ps' = [ps EXCEPT ![p] = Call(op, h, c)]
    /\ UNCHANGED <<fs, fs0, now, crashes, crashed>>
    /\ UNCHANGED libVars

\* Client p, inside a call of `op`, makes its next system call.
Sys(p, op) ==
    /\ Running(p)
    /\ ps[p].op = op
    /\ \E r \in {Step(ps[p], fs, now)} :
         /\ fs' = r.F
         /\ ps' = [ps EXCEPT ![p] = r.s]
    /\ UNCHANGED <<fs0, now, crashes, crashed>>
    /\ UNCHANGED libVars

\* The process of client p dies inside a call: its descriptor is closed by the
\* system, its temporary file stays; a new process takes its place.
Crash(p) ==
    /\ Running(p)
    /\ crashes < MaxCrashes
    /\ crashes' = crashes + 1
    /\ crashed' = [op |-> ps[p].op, pc |-> ps[p].pc, h |-> ps[p].h]
    /\ ps' = [ps EXCEPT ![p] = Idle]
    /\ UNCHANGED <<fs, fs0, now>>
    /\ UNCHANGED libVars

StoreReportSys(p) == Sys(p, "store_report")
QueueReportSys(p) == Sys(p, "queue_report")
GetReportSys(p) == Sys(p, "get_report")
GetQueuedReportSys(p) == Sys(p, "get_queued_report")
DequeueReportSys(p) == Sys(p, "dequeue_report")
DeleteReportSys(p) == Sys(p, "delete_report")
DeleteQueuedReportSys(p) == Sys(p, "delete_queued_report")
ReportExistsSys(p) == Sys(p, "report_exists")
QueuedReportExistsSys(p) == Sys(p, "queued_report_exists")
ListReportsSys(p) == Sys(p, "list_reports")
ListQueuedReportsSys(p) == Sys(p, "list_queued_reports")
GetStatsSys(p) == Sys(p, "get_stats")
ClearReportsSys(p) == Sys(p, "clear_reports")
ClearQueueSys(p) == Sys(p, "clear_queue")

AnySys(p) ==
    \/ StoreReportSys(p) \/ QueueReportSys(p) \/ GetReportSys(p)
    \/ GetQueuedReportSys(p) \/ DequeueReportSys(p) \/ DeleteReportSys(p)
    \/ DeleteQueuedReportSys(p) \/ ReportExistsSys(p) \/ QueuedReportExistsSys(p)
    \/ ListReportsSys(p) \/ ListQueuedReportsSys(p) \/ GetStatsSys(p)
    \/ ClearReportsSys(p) \/ ClearQueueSys(p)

AllOps == HashOps \cup WriteOps \cup BulkOps
\* The calls that write an artifact, and the calls that read one back.
WriterOps == {"store_report", "queue_report", "dequeue_report"}
ReaderOps == {"get_report", "get_queued_report"}

\* One client whose process may die inside a call.
NextCrash == Invoke(1, ConcHashes, AllOps) \/ AnySys(1) \/ Crash(1)
SpecCrash == Init /\ [][NextCrash]_vars

\* A store as an earlier run left it: every artifact complete, written at 0.
StoredFile(c) == [data |-> c, mode |-> DefaultMode, mtime |-> 0]
InitialStores ==
    {[d \in Dirs |-> (IF d = "reports" THEN r ELSE q)] :
        r \in {<<>>} \cup {[n \in {ReportFile(h).name} |-> StoredFile(c)] :
                              h \in ConcHashes, c \in Contents},
        q \in {<<>>} \cup {[n \in {QueueFile(h).name} |-> StoredFile(c)] :
                              h \in ConcHashes, c \in Contents}}
InitOnce ==
    /\ fs \in InitialStores
    /\ fs0 = fs
    /\ now = 0
    /\ ps = [p \in Procs |-> Idle]
    /\ crashes = 0
    /\ crashed = [op |-> "-", pc |-> "idle", h |-> NoHash]
    /\ sx = SxInit
    /\ cfg = CfgInit

\* Client p makes its one call.
InvokeOnce(p) == ps[p].pc = "idle" /\ Invoke(p, ConcHashes, AllOps)

\* Two clients on the same store, each making one call, the two calls
\* interleaved system call by system call.
NextOnce == \E p \in Procs : InvokeOnce(p) \/ AnySys(p)
SpecOnce == InitOnce /\ [][NextOnce]_vars

\* A writer whose process may die inside a call, and a concurrent reader.
NextWrite ==
    \/ Invoke(1, ConcHashes, WriterOps)
    \/ StoreReportSys(1) \/ QueueReportSys(1) \/ DequeueReportSys(1)
    \/ Crash(1)
    \/ Invoke(2, ConcHashes, ReaderOps)
    \/ GetReportSys(2) \/ GetQueuedReportSys(2)
SpecWrite == Init /\ [][NextWrite]_vars

\* The system calls of _write_file_atomic that can fail (disk full, I/O
\* error, permission).
Faults == {"mkstemp", "write", "chmod", "replace"}
\* The client makes a writing call in which one system call of the atomic
\* write fails, or none does.
WriteWithFault ==
    \E op \in WriterOps, h \in Hashes, fault \in Faults \cup {"-"} :
    \E c \in (IF op \in WriteOps THEN Contents ELSE {<<>>}) :
    \E r \in {Run([Call(op, h, c) EXCEPT !.fault = fault], fs, now)} :
        /\ fs' = r.F
        /\ ps' = [ps EXCEPT ![1] = r.s]
        /\ UNCHANGED <<fs0, now, crashes, crashed>>
        /\ UNCHANGED libVars
NextFault == WriteWithFault
SpecFault == Init /\ [][NextFault]_vars

\* ================================================================ signing

\* ------------------------------------------------------------------ values

\* A call of a signing function returned v / raised an exception of class
\* `kind` with message `msg`.
Returned(v) == [status |-> "ok", value |-> v]
Raised(kind, msg) == [status |-> kind, value |-> msg]
\* isinstance(e, cls) for the exception classes the signing calls raise:
\* signxml's InvalidDigest and InvalidCertificate derive from its
\* InvalidSignature, its InvalidInput from ValueError.
IsInstance(kind, cls) ==
    \/ kind = cls
    \/ kind \in {"InvalidDigest", "InvalidCertificate"} /\ cls = "InvalidSignature"
    \/ kind = "InvalidInput" /\ cls = "ValueError"

\* Private keys, by family; the first three are what load_pem_private_key
\* gives for RSA and EC PEM files, the last for an Ed25519 one.
PrivateKeys ==
    {[family |-> "RSA", id |-> "k1"], [family |-> "RSA", id |-> "k2"],
     [family |-> "EC", id |-> "k3"], [family |-> "Ed25519", id |-> "k4"]}
\* private_key.public_key()
PublicKeyOf(key) == [family |-> key.family, id |-> key.id, public |-> TRUE]
\* PEM text (or file content): a private key, a certificate, or neither.  A
\* certificate is self-signed (trusted = FALSE) or chains to a CA of the
\* system trust store.
PemKey(key) == [pem |-> "PRIVATE KEY", key |-> key, trusted |-> FALSE]
PemCert(key, trusted) == [pem |-> "CERTIFICATE", key |-> PublicKeyOf(key), trusted |-> trusted]
NotPem == [pem |-> "-", key |-> None, trusted |-> FALSE]
KeyOf(id) == CHOOSE k \in PrivateKeys : k.id = id
\* The certificates the caller holds as PEM text.
Certificates ==
    {PemCert(KeyOf("k1"), FALSE), PemCert(KeyOf("k1"), TRUE),
     PemCert(KeyOf("k2"), FALSE), PemCert(KeyOf("k3"), FALSE)}

\* The root element of a document: attributes in document order, text, and
\* the Signature child when signed.
Element(attrib, text) == [type |-> "Element", attrib |-> attrib, text |-> text, sig |-> None]
Attr(k, v) == [k |-> k, v |-> v]
AttribLists ==
    {<<Attr("id", "1")>>,
     <<Attr("id", "1"), Attr("name", "x")>>,
     <<Attr("name", "x"), Attr("id", "1")>>}
Texts == {"pass", "fail"}
Documents == {Element(a, t) : a \in AttribLists, t \in Texts}
\* What a caller may pass for a tree that is no lxml element.
NotAnElement == [type |-> "str", attrib |-> <<>>, text |-> "not an element", sig |-> None]
\* isinstance(tree, etree._Element)
IsElement(tree) == "type" \in DOMAIN tree /\ tree.type = "Element"

\* tree.set(k, v): the value replaced in place, or the attribute appended.
SetAttribute(tree, k, v) ==
    IF \E i \in DOMAIN tree.attrib : tree.attrib[i].k = k
    THEN [tree EXCEPT !.attrib = [i \in DOMAIN tree.attrib |->
                                    IF tree.attrib[i].k = k THEN Attr(k, v)
                                    ELSE tree.attrib[i]]]
    ELSE [tree EXCEPT !.attrib = Append(tree.attrib, Attr(k, v))]
\* tree.text = t
SetText(tree, t) == [tree EXCEPT !.text = t]

\* ------------------------------------------------------------------ xml.py

\* Mutant of C14N: the attributes serialised in document order.
C14NDocumentOrder(tree) ==
    [attrib |-> tree.attrib, text |-> tree.text, sig |-> tree.sig]
\* Mutant of C14N: the Signature child left out of the canonical form.
C14NWithoutSignature(tree) ==
    [attrib |-> {tree.attrib[i] : i \in DOMAIN tree.attrib},
     text |-> tree.text, sig |-> None]
\* etree.tostring(tree, method="c14n"): the attributes in lexicographic
\* order whatever their document order (here: as a set), the text, and the
\* children, the Signature element among them.
C14N(tree) ==
    [attrib |-> {tree.attrib[i] : i \in DOMAIN tree.attrib},
     text |-> tree.text, sig |-> tree.sig]
\* canonicalize_xml(tree)
CanonicalizeXml(tree) ==
    IF ~IsElement(tree) THEN Raised("TypeError", "Expected lxml Element")
    ELSE Returned(C14N(tree))
\* hashlib.algorithms_available, and names outside it
HashlibAlgorithms == {"sha256", "sha512"}
AlgorithmNames == HashlibAlgorithms \cup {"md99"}
\* hashlib.new(algorithm).update(data).hexdigest(), collision-free
HexDigest(algorithm, data) == [algorithm |-> algorithm, of |-> data]
\* compute_canonical_hash(tree, algorithm)
ComputeCanonicalHash(tree, algorithm) ==
    IF algorithm \notin HashlibAlgorithms
    THEN Raised("ValueError", "Unsupported hash algorithm")
    ELSE LET canonical == CanonicalizeXml(tree) IN
         IF canonical.status # "ok" THEN canonical
         ELSE Returned(HexDigest(algorithm, canonical.value))

\* ----------------------------------------------------------------- keys.py

\* The files of the key directory.
KeyFiles ==
    [n \in {"/keys/rsa.pem", "ec.pem", "/keys/ed25519.pem", "/keys/cert.pem",
            "/keys/junk.pem"} |->
        CASE n = "/keys/rsa.pem" -> PemKey(KeyOf("k1"))
          [] n = "ec.pem" -> PemKey(KeyOf("k3"))
          [] n = "/keys/ed25519.pem" -> PemKey(KeyOf("k4"))
          [] n = "/keys/cert.pem" -> PemCert(KeyOf("k1"), FALSE)
          [] OTHER -> NotPem]
\* A `source` argument: a Path object, a str or bytes.  A str is described by
\* what the code asks of it: which of the prefixes "/", "./", "../",
\* "-----BEGIN" it starts with (after strip() for the last), whether it is
\* shorter than 260 characters, the path it spells, and the bytes it encodes to.
PathSource(name) ==
    [type |-> "Path", prefix |-> "-", short |-> TRUE, path |-> name, data |-> NotPem]
StrPath(name, prefix) ==
    [type |-> "str", prefix |-> prefix, short |-> TRUE, path |-> name, data |-> NotPem]
StrPem(data, short) ==
    [type |-> "str", prefix |-> "-----BEGIN", short |-> short, path |-> "-", data |-> data]
BytesSource(data) ==
    [type |-> "bytes", prefix |-> "-", short |-> TRUE, path |-> "-", data |-> data]
Sources ==
    {PathSource("/keys/rsa.pem"), PathSource("/keys/ed25519.pem"),
     PathSource("/keys/cert.pem"), PathSource("/keys/junk.pem"),
     PathSource("/keys/missing.pem"),
     StrPath("/keys/rsa.pem", "/"), StrPath("ec.pem", ""),
     StrPath("/keys/cert.pem", "/"),
     StrPath("/keys/missing.pem", "/"), StrPath("./missing.pem", "./"),
     StrPath("missing.pem", ""),
     StrPem(PemKey(KeyOf("k2")), FALSE), StrPem(PemKey(KeyOf("k3")), TRUE),
     StrPem(PemCert(KeyOf("k2"), FALSE), FALSE),
     BytesSource(PemKey(KeyOf("k1"))), BytesSource(PemCert(KeyOf("k3"), FALSE)),
     BytesSource(NotPem)}
\* Path(name).exists()
SourceExists(name) == name \in DOMAIN KeyFiles
\* source.startswith(("/", "./", "../")) or (len(source) < 260 and not
\* source.strip().startswith("-----BEGIN"))
LooksLikePath(source) ==
    \/ source.prefix \in {"/", "./", "../"}
    \/ (source.short /\ source.prefix # "-----BEGIN")
\* The first part of load_private_key / load_certificate: the bytes to parse.
ReadSource(source, what) ==
    IF source.type = "Path"
    THEN IF ~SourceExists(source.path)
         THEN Raised("FileNotFoundError", what)
         ELSE Returned(KeyFiles[source.path])
    ELSE IF source.type = "str"
    THEN IF LooksLikePath(source)
         THEN IF SourceExists(source.path) THEN Returned(KeyFiles[source.path])
              ELSE Returned(source.data)
         ELSE Returned(source.data)
    ELSE Returned(source.data)
\* load_private_key(source)
LoadPrivateKey(source) ==
    LET key_data == ReadSource(source, "Key file not found") IN
    IF key_data.status # "ok" THEN key_data
    ELSE IF key_data.value.pem # "PRIVATE KEY"
    THEN Raised("ValueError", "Failed to load private key")
    ELSE IF key_data.value.key.family \notin {"RSA", "EC"}
    THEN Raised("ValueError", "Unsupported key type")
    ELSE Returned(key_data.value.key)
\* load_certificate(source)
LoadCertificate(source) ==
    LET cert_data == ReadSource(source, "Certificate file not found") IN
    IF cert_data.status # "ok" THEN cert_data
    ELSE IF cert_data.value.pem # "CERTIFICATE"
    THEN Raised("ValueError", "Failed to load certificate")
    ELSE Returned(cert_data.value)

\* --------------------------------------------------------------- signer.py

\* tree.find(".//{http://www.w3.org/2000/09/xmldsig#}Signature") is not None
FindSignature(tree) == tree.sig # None
\* Mutant of EnvelopedContent: the Signature subtree is not excluded.
EnvelopedContentWithSignature(tree) == C14N(tree)
\* The enveloped-signature transform: the document without its Signature.
EnvelopedContent(tree) == C14N([tree EXCEPT !.sig = None])
\* The signature value a private key gives for the canonical SignedInfo.
SignatureValue(key, signed_info) == [key |-> key.id, over |-> signed_info]
\* XMLSigner(method=enveloped, signature_algorithm, digest_algorithm).sign(
\* tree, key, cert): the Signature element appended to the root, in place.
\* KeyInfo carries the certificate, or the public key value without one.
XMLSignerSign(tree, key, cert, sig_algorithm, digest_algorithm) ==
    LET signed_info ==
            [CanonicalizationMethod |-> "c14n11",
             SignatureMethod |-> sig_algorithm,
             DigestMethod |-> digest_algorithm,
             DigestValue |-> HexDigest(digest_algorithm, EnvelopedContent(tree))]
    IN [tree EXCEPT !.sig =
            [SignedInfo |-> signed_info,
             SignatureValue |-> SignatureValue(key, signed_info),
             KeyInfo |-> IF cert # None
                         THEN [X509Certificate |-> cert, KeyValue |-> None]
                         ELSE [X509Certificate |-> None,
                               KeyValue |-> PublicKeyOf(key)]]]
\* Mutant of SigAlgorithm: every key that is not RSA taken for an EC key.
SigAlgorithmFallthrough(private_key) ==
    IF private_key.family = "RSA" THEN Returned("rsa-sha256")
    ELSE Returned("ecdsa-sha256")
\* sign_xml, lines 75-84: the signature algorithm of a key
SigAlgorithm(private_key) ==
    IF private_key.family = "RSA" THEN Returned("rsa-sha256")
    ELSE IF private_key.family = "EC" THEN Returned("ecdsa-sha256")
    ELSE Raised("ValueError", "Unsupported key type")
\* sign_xml(tree, private_key, cert): the outcome and the tree it leaves
SignXml(tree, private_key, cert) ==
    IF ~IsElement(tree)
    THEN [ret |-> Raised("TypeError", "Expected lxml Element"), tree |-> tree]
    ELSE LET sig_algorithm == SigAlgorithm(private_key) IN
         IF sig_algorithm.status # "ok" THEN [ret |-> sig_algorithm, tree |-> tree]
         ELSE LET signed_root == XMLSignerSign(tree, private_key, cert,
                                               sig_algorithm.value, "sha256")
              IN [ret |-> Returned(signed_root), tree |-> signed_root]
\* has_signature(tree)
HasSignature(tree) ==
    IF ~IsElement(tree) THEN Returned(FALSE)
    ELSE Returned(FindSignature(tree))

\* ------------------------------------------------------------- verifier.py

\* The signature value verifies under the public key for the SignedInfo of
\* the document, with the algorithm SignedInfo names.
SignatureVerifies(public_key, sig) ==
    /\ sig.SignatureValue.key = public_key.id
    /\ sig.SignatureValue.over = sig.SignedInfo
    /\ sig.SignedInfo.SignatureMethod =
         (IF public_key.family = "RSA" THEN "rsa-sha256" ELSE "ecdsa-sha256")
\* Mutant of XMLVerifierVerify: the reference digest is not recomputed.
XMLVerifierVerifyNoDigest(tree, x509_cert) ==
    LET sig == tree.sig
        cert == IF x509_cert # None THEN x509_cert ELSE sig.KeyInfo.X509Certificate
    IN IF cert = None THEN Raised("InvalidInput", "Expected a X.509 certificate based signature")
       ELSE IF cert.pem # "CERTIFICATE" THEN Raised("ValueError", "Unable to load PEM file")
       ELSE IF x509_cert = None /\ ~cert.trusted
       THEN Raised("InvalidCertificate", "unable to get local issuer certificate")
       ELSE IF ~SignatureVerifies(cert.key, sig)
       THEN Raised("InvalidSignature", "Signature verification failed")
       ELSE Returned(EnvelopedContent(tree))
\* XMLVerifier().verify(tree, x509_cert=...) on a tree that has a Signature:
\* the certificate is the one supplied, else the embedded one, which must
\* chain to a trusted CA; the signature value is verified over SignedInfo
\* under the certificate's key, then the digest of the enveloped content is
\* recomputed and compared with DigestValue.
XMLVerifierVerify(tree, x509_cert) ==
    LET sig == tree.sig
        cert == IF x509_cert # None THEN x509_cert ELSE sig.KeyInfo.X509Certificate
    IN IF cert = None THEN Raised("InvalidInput", "Expected a X.509 certificate based signature")
       ELSE IF cert.pem # "CERTIFICATE" THEN Raised("ValueError", "Unable to load PEM file")
       ELSE IF x509_cert = None /\ ~cert.trusted
       THEN Raised("InvalidCertificate", "unable to get local issuer certificate")
       ELSE IF ~SignatureVerifies(cert.key, sig)
       THEN Raised("InvalidSignature", "Signature verification failed")
       ELSE IF HexDigest(sig.SignedInfo.DigestMethod, EnvelopedContent(tree))
                 # sig.SignedInfo.DigestValue
       THEN Raised("InvalidDigest", "Digest mismatch for reference 0")
       ELSE Returned(EnvelopedContent(tree))
\* Mutant of VerifySignature: without the try / except of lines 73-86.
VerifySignatureUncaught(tree, cert) ==
    IF ~IsElement(tree) THEN Returned(FALSE)
    ELSE IF ~FindSignature(tree) THEN Returned(FALSE)
    ELSE LET r == XMLVerifierVerify(tree, cert) IN
         IF r.status = "ok" THEN Returned(TRUE) ELSE r
\* verify_signature(tree, cert)
VerifySignature(tree, cert) ==
    IF ~IsElement(tree) THEN Returned(FALSE)
    ELSE IF ~FindSignature(tree) THEN Returned(FALSE)
    ELSE LET r == XMLVerifierVerify(tree, cert) IN
         IF r.status = "ok" THEN Returned(TRUE) ELSE Returned(FALSE)
\* Mutant of VerifySignatureStrict: an unsigned document reported as a
\* signature that does not verify.
VerifySignatureStrictOneKind(tree, cert) ==
    IF ~IsElement(tree) THEN Raised("TypeError", "Expected lxml Element")
    ELSE IF ~FindSignature(tree) THEN Raised("InvalidSignature", "No signature found in XML document")
    ELSE LET r == XMLVerifierVerify(tree, cert) IN
         IF r.status = "ok" THEN Returned(None) ELSE r
\* verify_signature_strict(tree, cert)
VerifySignatureStrict(tree, cert) ==
    IF ~IsElement(tree) THEN Raised("TypeError", "Expected lxml Element")
    ELSE IF ~FindSignature(tree) THEN Raised("ValueError", "No signature found in XML document")
    ELSE LET r == XMLVerifierVerify(tree, cert) IN
         IF r.status = "ok" THEN Returned(None) ELSE r
\* verify_with_public_key(tree, public_key): public_key is not used
VerifyWithPublicKey(tree, public_key) == VerifySignature(tree, None)

\* ------------------------------------------------- the caller of signing

\* The record of a call: the function, its arguments, its outcome.
CallOf(op, x, y, r) == [op |-> op, status |-> r.status, value |-> r.value,
                        arg |-> [x |-> x, y |-> y]]
\* The caller has an element with a Signature / without one.
Signed == IsElement(sx.tree) /\ FindSignature(sx.tree)
Unsigned == IsElement(sx.tree) /\ ~FindSignature(sx.tree)
\* A call that leaves the tree alone.
Pure(call) == sx' = [sx EXCEPT !.call = call] /\ UNCHANGED <<storeVars, cfg>>

\* tree = load_xml(...): a freshly parsed document
LoadXml ==
    /\ \E d \in Documents :
         sx' = [tree |-> d, call |-> CallOf("load_xml", None, None, Returned(None)),
                validated |-> None, tampered |-> FALSE]
    /\ UNCHANGED <<storeVars, cfg>>
\* The caller passes a value that is no element.
TakeNonElement ==
    /\ sx.tree # NotAnElement
    /\ sx' = [SxInit EXCEPT !.tree = NotAnElement]
    /\ UNCHANGED <<storeVars, cfg>>
\* sign_xml(tree, key, cert) on a tree that has no signature yet
SignXmlCall ==
    /\ ~Signed
    /\ \E key \in PrivateKeys, cert \in Certificates \cup {None} :
       \E r \in {SignXml(sx.tree, key, cert)} :
         sx' = [tree |-> r.tree,
                call |-> CallOf("sign_xml", key, cert,
                                [r.ret EXCEPT !.value = IF r.ret.status = "ok"
                                                        THEN None ELSE @]),
                validated |-> None, tampered |-> FALSE]
    /\ UNCHANGED <<storeVars, cfg>>
\* signed.set("tampered", "true"), signed.set("id", "2"): the signed tree
\* changed after signing
SetAttributeCall ==
    /\ Signed /\ ~sx.tampered
    /\ \E a \in {Attr("tampered", "true"), Attr("id", "2")} :
         sx' = [sx EXCEPT !.tree = SetAttribute(sx.tree, a.k, a.v),
                          !.tampered = TRUE,
                          !.call = CallOf("set", a, None, Returned(None))]
    /\ UNCHANGED <<storeVars, cfg>>
\* signed.text = t
SetTextCall ==
    /\ Signed /\ ~sx.tampered
    /\ \E t \in Texts \ {sx.tree.text} :
         sx' = [sx EXCEPT !.tree = SetText(sx.tree, t),
                          !.tampered = TRUE,
                          !.call = CallOf("set_text", None, None, Returned(None))]
    /\ UNCHANGED <<storeVars, cfg>>
\* verify_signature(tree, cert); the certificate that validated the tree as
\* it was signed is remembered
VerifySignatureCall ==
    /\ \E cert \in Certificates \cup {None, NotPem} :
       \E r \in {VerifySignature(sx.tree, cert)} :
         sx' = [sx EXCEPT !.call = CallOf("verify_signature", None, cert, r),
                          !.validated = IF r.status = "ok" /\ r.value /\ ~sx.tampered
                                        THEN [cert |-> cert] ELSE @]
    /\ UNCHANGED <<storeVars, cfg>>
\* verify_signature_strict(tree, cert)
VerifySignatureStrictCall ==
    \E cert \in Certificates \cup {None, NotPem} :
        Pure(CallOf("verify_signature_strict", None, cert,
                    VerifySignatureStrict(sx.tree, cert)))
\* verify_with_public_key(tree, public_key)
VerifyWithPublicKeyCall ==
    \E key \in PrivateKeys :
        Pure(CallOf("verify_with_public_key", PublicKeyOf(key), None,
                    VerifyWithPublicKey(sx.tree, PublicKeyOf(key))))
\* has_signature(tree)
HasSignatureCall == Pure(CallOf("has_signature", None, None, HasSignature(sx.tree)))
\* compute_canonical_hash(tree, algorithm)
ComputeCanonicalHashCall ==
    \E algorithm \in AlgorithmNames :
        Pure(CallOf("compute_canonical_hash", [name |-> algorithm], None,
                    ComputeCanonicalHash(sx.tree, algorithm)))
\* load_private_key(source)
LoadPrivateKeyCall ==
    \E source \in Sources :
        Pure(CallOf("load_private_key", source, None, LoadPrivateKey(source)))
\* load_certificate(source)
LoadCertificateCall ==
    \E source \in Sources :
        Pure(CallOf("load_certificate", source, None, LoadCertificate(source)))

NextSign ==
    \/ LoadXml \/ TakeNonElement \/ SignXmlCall \/ SetAttributeCall \/ SetTextCall
    \/ VerifySignatureCall \/ VerifySignatureStrictCall \/ VerifyWithPublicKeyCall
    \/ HasSignatureCall \/ ComputeCanonicalHashCall
    \/ LoadPrivateKeyCall \/ LoadCertificateCall
SpecSign == Init /\ [][NextSign]_vars

\* ------------------------------------------------------- config/manager.py

\* str.lower() and str.upper() of the strings the callers use.
Lower(str) == IF str = "YES" THEN "yes" ELSE str
Upper(key) == IF key = "jux_enabled" THEN "JUX_ENABLED" ELSE "JUX_API_TIMEOUT"
\* int(value) of the strings int() accepts.
IntOf == [str \in {"9", "09"} |-> "9"]

\* _parse_int(value)
ParseInt(value) ==
    IF value.t = "int" THEN Returned(value)
    ELSE IF value.t = "str"
    THEN IF value.v \in DOMAIN IntOf THEN Returned(Value("int", IntOf[value.v]))
         ELSE Raised("ConfigValidationError", "Invalid integer value")
    ELSE Raised("ConfigValidationError", "Invalid integer value type")
\* _parse_bool(value)
ParseBool(value) ==
    IF value.t = "bool" THEN Returned(value)
    ELSE IF value.t = "str"
    THEN LET lower_value == Lower(value.v) IN
         IF lower_value \in {"true", "1", "yes", "on"}
         THEN Returned(Value("bool", "True"))
         ELSE IF lower_value \in {"false", "0", "no", "off"}
         THEN Returned(Value("bool", "False"))
         ELSE Raised("ConfigValidationError", "Invalid boolean value")
    ELSE Raised("ConfigValidationError", "Invalid boolean value type")
\* _validate_value(key, value, field_info)
ValidateValue(key, value, field_info) ==
    IF value = None THEN Returned(None)
    ELSE IF field_info.type = "bool" THEN ParseBool(value)
    ELSE IF field_info.type = "int" THEN ParseInt(value)
    ELSE Returned(value)

\* get(key): the manager m is its _config and _sources.
Get(m, key) ==
    IF key \notin DOMAIN ConfigSchema THEN Raised("KeyError", key)
    ELSE Returned(m.config[key])
\* set(key, value, source): what it returns or raises, and the manager after
Set(m, key, value, source) ==
    IF key \notin DOMAIN ConfigSchema THEN [ret |-> Raised("KeyError", key), m |-> m]
    ELSE LET validated == ValidateValue(key, value, ConfigSchema[key]) IN
         IF validated.status # "ok" THEN [ret |-> validated, m |-> m]
         ELSE [ret |-> Returned(None),
               m |-> [config |-> [m.config EXCEPT ![key] = validated.value],
                      sources |-> [m.sources EXCEPT ![key] = source]]]
\* if key in schema: with contextlib.suppress(ConfigValidationError):
\*     self.set(key, value, source)
SetIfKnown(m, key, value, source) ==
    IF key \notin DOMAIN ConfigSchema THEN m ELSE Set(m, key, value, source).m

\* load_from_dict(values, source): values in the order of the dictionary
RECURSIVE LoadFromDict(_, _, _)
LoadFromDict(m, values, source) ==
    IF values = <<>> THEN m
    ELSE LoadFromDict(SetIfKnown(m, Head(values).k, Head(values).v, source),
                      Tail(values), source)
\* load_from_env(): the keys of the schema from the i-th on
RECURSIVE LoadFromEnv(_, _, _)
LoadFromEnv(m, environ, i) ==
    IF i > Len(SchemaKeys) THEN m
    ELSE LET key == SchemaKeys[i]
             env_var == Upper(key) IN
         LoadFromEnv(IF environ[env_var] # None
                     THEN SetIfKnown(m, key, environ[env_var], Source("env", env_var))
                     ELSE m,
                     environ, i + 1)
\* section.items() of a ConfigParser: a value is interpolated when it is
\* fetched, and a "%" followed by neither "%" nor "(" is a syntax error.
BadInterpolation(str) == str \in {"50%"}
\* for ini_key, value in section.items(): ...
RECURSIVE LoadSection(_, _, _)
LoadSection(m, items, source) ==
    IF items = <<>> THEN [ret |-> Returned(TRUE), m |-> m]
    ELSE IF BadInterpolation(Head(items).v.v)
    THEN [ret |-> Raised("InterpolationSyntaxError", Head(items).v.v), m |-> m]
    ELSE LoadSection(SetIfKnown(m, "jux_" \o Head(items).k, Head(items).v, source),
                     Tail(items), source)
\* The INI files of the caller: whether there is a [jux] section, and its
\* options in file order; every value is a string.
IniPaths == {"jux.ini", "bad.ini", "percent.ini", "other.ini"}
IniFiles ==
    [path \in IniPaths |->
        CASE path = "jux.ini" ->
               [jux |-> TRUE, items |-> <<[k |-> "enabled", v |-> Value("str", "YES")],
                                          [k |-> "api_timeout", v |-> Value("str", "09")]>>]
          [] path = "bad.ini" ->
               [jux |-> TRUE, items |-> <<[k |-> "enabled", v |-> Value("str", "maybe")],
                                          [k |-> "bogus", v |-> Value("str", "9")],
                                          [k |-> "api_timeout", v |-> Value("str", "9")]>>]
          [] path = "percent.ini" ->
               [jux |-> TRUE, items |-> <<[k |-> "api_timeout", v |-> Value("str", "50%")],
                                          [k |-> "enabled", v |-> Value("str", "YES")]>>]
          [] OTHER -> [jux |-> FALSE, items |-> <<>>]]
\* load_from_file(path)
LoadFromFile(m, path) ==
    IF path \notin IniPaths THEN [ret |-> Returned(FALSE), m |-> m]
    ELSE IF ~IniFiles[path].jux THEN [ret |-> Returned(TRUE), m |-> m]
    ELSE LoadSection(m, IniFiles[path].items, Source("file", path))
\* The TOML files of the caller: whether the file parses, and its [tool.jux]
\* table in file order; the values have TOML's types.
TomlPaths == {"pyproject.toml", "mixed.toml", "broken.toml", "plain.toml"}
TomlFiles ==
    [path \in TomlPaths |->
        CASE path = "pyproject.toml" ->
               [decodes |-> TRUE, jux |-> <<[k |-> "enabled", v |-> Value("bool", "True")],
                                            [k |-> "api_timeout", v |-> Value("int", "5")]>>]
          [] path = "mixed.toml" ->
               [decodes |-> TRUE, jux |-> <<[k |-> "api_timeout", v |-> Value("bool", "True")],
                                            [k |-> "bogus", v |-> Value("int", "5")],
                                            [k |-> "enabled", v |-> Value("str", "YES")]>>]
          [] path = "broken.toml" -> [decodes |-> FALSE, jux |-> <<>>]
          [] OTHER -> [decodes |-> TRUE, jux |-> <<>>]]
\* for toml_key, value in tool_section.items(): ...
RECURSIVE LoadTable(_, _, _)
LoadTable(m, items, source) ==
    IF items = <<>> THEN m
    ELSE LoadTable(SetIfKnown(m, "jux_" \o Head(items).k, Head(items).v, source),
                   Tail(items), source)
\* load_from_toml(path)
LoadFromToml(m, path) ==
    IF path \notin TomlPaths THEN [ret |-> Returned(FALSE), m |-> m]
    ELSE IF ~TomlFiles[path].decodes THEN [ret |-> Returned(FALSE), m |-> m]
    ELSE IF TomlFiles[path].jux = <<>> THEN [ret |-> Returned(FALSE), m |-> m]
    ELSE [ret |-> Returned(TRUE),
          m |-> LoadTable(m, TomlFiles[path].jux, Source("toml", path))]

\* -------------------------------------------------- the configuration caller

\* What the caller passes: keys in and out of the schema, values of every
\* Python type the parsers tell apart, dictionaries and environments.
ConfigKeys == DOMAIN ConfigSchema \cup {"jux_bogus"}
ConfigValues ==
    {Value("int", "5"), Value("str", "09"), Value("str", "abc"),
     Value("bool", "True"), Value("str", "YES"), None}
Dicts ==
    {<<[k |-> "jux_api_timeout", v |-> Value("int", "5")]>>,
     <<[k |-> "jux_api_timeout", v |-> Value("str", "abc")],
       [k |-> "jux_enabled", v |-> Value("bool", "True")]>>,
     <<[k |-> "jux_bogus", v |-> Value("int", "5")],
       [k |-> "jux_enabled", v |-> Value("int", "1")],
       [k |-> "jux_api_timeout", v |-> Value("str", "9")]>>}
Environs ==
    {[var \in {"JUX_ENABLED", "JUX_API_TIMEOUT"} |-> None],
     [var \in {"JUX_ENABLED", "JUX_API_TIMEOUT"} |->
        IF var = "JUX_ENABLED" THEN None ELSE Value("str", "9")],
     [var \in {"JUX_ENABLED", "JUX_API_TIMEOUT"} |->
        IF var = "JUX_ENABLED" THEN Value("str", "YES") ELSE Value("str", "abc")]}
\* The entries of a batch as the loader meets them: config key and value.
EnvEntries(environ) ==
    SelectSeq([i \in DOMAIN SchemaKeys |->
                 [k |-> SchemaKeys[i], v |-> environ[Upper(SchemaKeys[i])]]],
              LAMBDA e : e.v # None)
Prefixed(items) == [i \in DOMAIN items |-> [k |-> "jux_" \o items[i].k, v |-> items[i].v]]
IniEntries(path) == IF path \in IniPaths THEN Prefixed(IniFiles[path].items) ELSE <<>>
TomlEntries(path) ==
    IF path \in TomlPaths /\ TomlFiles[path].decodes THEN Prefixed(TomlFiles[path].jux)
    ELSE <<>>
\* The entries up to the first one the INI parser cannot interpolate.
RECURSIVE Readable(_)
Readable(entries) ==
    IF entries = <<>> \/ BadInterpolation(Head(entries).v.v) THEN <<>>
    ELSE <<Head(entries)>> \o Readable(Tail(entries))
\* An entry the manager takes: a key of the schema with a value that
\* validates.
ValidEntry(e) ==
    /\ e.k \in DOMAIN ConfigSchema
    /\ ValidateValue(e.k, e.v, ConfigSchema[e.k]).status = "ok"
\* best after a source of the given precedence supplied the entries.
RECURSIVE Supplied(_, _, _)
Supplied(best, entries, level) ==
    IF entries = <<>> THEN best
    ELSE LET e == Head(entries) IN
         Supplied(IF ValidEntry(e) /\ level >= best[e.k].level
                  THEN [best EXCEPT ![e.k] =
                          [level |-> level,
                           value |-> ValidateValue(e.k, e.v, ConfigSchema[e.k]).value]]
                  ELSE best,
                  Tail(entries), level)
\* The caller's call made: the manager it leaves, the entries it supplied
\* at the given precedence, and the call's record.
Called(m, entries, kind, call) ==
    /\ cfg' = [config |-> m.config, sources |-> m.sources,
               best |-> Supplied(cfg.best, entries, Precedence(kind)),
               call |-> call]
    /\ UNCHANGED <<storeVars, sx>>

\* config.set(key, value)
SetCall ==
    \E key \in ConfigKeys, value \in ConfigValues :
    \E r \in {Set(cfg, key, value, Source("explicit", "-"))} :
        Called(r.m, <<[k |-> key, v |-> value]>>, "explicit",
               CallOf("set", key, value, r.ret))
\* config.get(key)
GetCall ==
    \E key \in ConfigKeys :
        Called(cfg, <<>>, "default", CallOf("get", key, None, Get(cfg, key)))
\* config.load_from_dict(values)
LoadFromDictCall ==
    \E values \in Dicts :
        Called(LoadFromDict(cfg, values, Source("dict", "-")), values, "dict",
               CallOf("load_from_dict", values, None, Returned(None)))
\* config.load_from_env()
LoadFromEnvCall ==
    \E environ \in Environs :
        Called(LoadFromEnv(cfg, environ, 1), EnvEntries(environ), "env",
               CallOf("load_from_env", environ, None, Returned(None)))
\* config.load_from_file(path)
LoadFromFileCall ==
    \E path \in IniPaths \cup {"missing.ini"} :
    \E r \in {LoadFromFile(cfg, path)} :
        Called(r.m, Readable(IniEntries(path)), "file",
               CallOf("load_from_file", path, None, r.ret))
\* config.load_from_toml(path)
LoadFromTomlCall ==
    \E path \in TomlPaths \cup {"missing.toml"} :
    \E r \in {LoadFromToml(cfg, path)} :
        Called(r.m, TomlEntries(path), "toml",
               CallOf("load_from_toml", path, None, r.ret))

NextConfig ==
    \/ SetCall \/ GetCall \/ LoadFromDictCall \/ LoadFromEnvCall
    \/ LoadFromFileCall \/ LoadFromTomlCall
SpecConfig == Init /\ [][NextConfig]_vars

\* ------------------------------------------------------------ observations

\* The call op(c, h) made on the store F, run to completion: its frame at
\* return (status, value) and the store it leaves.
Outcome(op, h, c, F) == Run(Call(op, h, c), F, now)
Exists(F, h) == Outcome("report_exists", h, <<>>, F).s.value
QueuedExists(F, h) == Outcome("queued_report_exists", h, <<>>, F).s.value
List(F) == Outcome("list_reports", NoHash, <<>>, F).s.value
ListQueued(F) == Outcome("list_queued_reports", NoHash, <<>>, F).s.value
Stats(F) == Outcome("get_stats", NoHash, <<>>, F).s.value
\* How often x occurs in the list xs.
CountOf(x, xs) == Cardinality({i \in 1..Len(xs) : xs[i] = x})
\* The artifacts of a partition, and their sizes and write times.
Artifacts(F, dir) == {[dir |-> dir, name |-> n] : n \in {m \in DOMAIN F[dir] : m.ext = "xml"}}
RECURSIVE SumSizes(_, _)
SumSizes(F, paths) ==
    IF paths = {} THEN 0
    ELSE LET f == CHOOSE x \in paths : TRUE
         IN Len(F[f.dir][f.name].data) + SumSizes(F, paths \ {f})
OldestTime(F, paths) ==
    CHOOSE t \in {F[f.dir][f.name].mtime : f \in paths} :
        \A f \in paths : t <= F[f.dir][f.name].mtime
\* Client 1 has just completed the call `op`, which ended with `status`.
Did(op, status) == ps[1].pc = "done" /\ ps[1].op = op /\ ps[1].status = status

\* ------------------------------------------------------------------ claims

\* C1: for a hash h in neither partition and any bytes b, queue(b, h) makes
\* queued_exists(h) true and exists(h) false; promote(h) after it makes
\* exists(h) true and queued_exists(h) false, and get(h) returns exactly b.
C1_QueueThenPromote ==
    \A h \in Hashes, b \in Contents :
        (~PathExists(fs, ReportFile(h)) /\ ~PathExists(fs, QueueFile(h))) =>
            LET q == Outcome("queue_report", h, b, fs)
                d == Outcome("dequeue_report", h, <<>>, q.F)
                g == Outcome("get_report", h, <<>>, d.F)
            IN /\ q.s.status = "ok"
               /\ QueuedExists(q.F, h) = TRUE
               /\ Exists(q.F, h) = FALSE
               /\ d.s.status = "ok"
               /\ Exists(d.F, h) = TRUE
               /\ QueuedExists(d.F, h) = FALSE
               /\ g.s.status = "ok"
               /\ g.s.value = b
\* A promote has returned, and its hash is committed and no longer queued.
C1_Witness ==
    /\ Did("dequeue_report", "ok")
    /\ PathExists(fs, ReportFile(ps[1].h))
    /\ ~PathExists(fs, QueueFile(ps[1].h))
    /\ ~PathExists(fs0, ReportFile(ps[1].h))

\* C2: a step changes the file under <partition>/<hash>.xml only into the
\* complete content of a write at its rename: after every step, a crash
\* included, the path is absent, holds what it held before, or holds the
\* complete new content; and what get / get_queued return is a complete
\* artifact.
C2_Step ==
    /\ \A d \in Dirs, h \in ConcHashes :
         LET path == [dir |-> d, name |-> [stem |-> h, ext |-> "xml"]]
         IN PathExists(fs', path) =>
              \/ PathExists(fs, path) /\ ReadBytes(fs', path) = ReadBytes(fs, path)
              \/ \E p \in Procs :
                   /\ ps[p].pc = "replace"
                   /\ ps[p].target = path
                   /\ ps[p].buf \in Contents
                   /\ ReadBytes(fs', path) = ps[p].buf
    /\ \A p \in Procs :
         (ps'[p].pc = "done" /\ ps'[p].op \in ReaderOps /\ ps'[p].status = "ok")
             => ps'[p].value \in Contents
C2_AtomicWriteVisibility == [][C2_Step]_vars
\* The reader has got a complete artifact back and the writer, whose process
\* died once in the middle of a write, is half way through writing the same
\* path again.
C2_Witness ==
    /\ ps[2].pc = "done" /\ ps[2].op = "get_report" /\ ps[2].status = "ok"
    /\ ps[1].pc = "write" /\ ps[1].n = 1 /\ Len(ps[1].buf) = 2
    /\ ps[1].target = ReportFile(ps[2].h)
    /\ ps[2].value # ps[1].buf
    /\ crashed.pc = "write"

\* C3: when promote(h) dies after its write to Committed and before its
\* delete from Queued, h is in both partitions with the same bytes; promote(h)
\* run again returns, leaves the committed bytes as they are and removes h
\* from Queued.
C3_PromoteReentrant ==
    (ps[1].pc = "idle" /\ crashed.op = "dequeue_report" /\ crashed.pc = "unlink") =>
        LET h == crashed.h
            d == Outcome("dequeue_report", h, <<>>, fs)
        IN /\ PathExists(fs, ReportFile(h))
           /\ PathExists(fs, QueueFile(h))
           /\ ReadBytes(fs, ReportFile(h)) = ReadBytes(fs, QueueFile(h))
           /\ d.s.status = "ok"
           /\ PathExists(d.F, ReportFile(h))
           /\ ReadBytes(d.F, ReportFile(h)) = ReadBytes(fs, ReportFile(h))
           /\ ~PathExists(d.F, QueueFile(h))
\* A promote has died between its two steps, and promote, run again, has
\* returned.
C3_Witness ==
    /\ crashed.op = "dequeue_report" /\ crashed.pc = "unlink"
    /\ Did("dequeue_report", "ok")
    /\ ps[1].h = crashed.h

\* C4: h is queued; promote(h) and queue(b2, h) run concurrently; once both
\* have returned, b2 is retrievable from Queued or from Committed.
C4_NoLostQueuedWrite ==
    \A p \in Procs, q \in Procs, h \in ConcHashes :
        (/\ PathExists(fs0, QueueFile(h))
         /\ ps[p].pc = "done" /\ ps[p].op = "dequeue_report" /\ ps[p].h = h
         /\ ps[q].pc = "done" /\ ps[q].op = "queue_report" /\ ps[q].h = h
         /\ ps[q].status = "ok")
        => \/ PathExists(fs, QueueFile(h)) /\ ReadBytes(fs, QueueFile(h)) = ps[q].content
           \/ PathExists(fs, ReportFile(h)) /\ ReadBytes(fs, ReportFile(h)) = ps[q].content

\* C5: get(h) (get_queued(h)) run concurrently with a delete, clear or promote
\* returns the complete stored bytes or raises its NotFound error, and fails
\* with no other error.
RemovalOps == {"delete_report", "delete_queued_report", "clear_reports",
               "clear_queue", "dequeue_report"}
C5_GetUnderRemoval ==
    \A p \in Procs, q \in Procs :
        (ps[p].pc = "done" /\ ps[p].op \in ReaderOps /\ ps[q].op \in RemovalOps)
        => \/ ps[p].status = "ok" /\ ps[p].value \in Contents
           \/ ps[p].op = "get_report" /\ ps[p].status = "ReportNotFoundError"
           \/ ps[p].op = "get_queued_report" /\ ps[p].status = "QueuedReportNotFoundError"

\* C6: whenever store(b, h) has returned, however many stores of h came
\* before it, list() holds h exactly once and get(h) returns b, the bytes of
\* the last write; likewise for queue, list_queued and get_queued.
C6_IdempotentStore ==
    /\ Did("store_report", "ok") =>
         LET g == Outcome("get_report", ps[1].h, <<>>, fs)
         IN /\ CountOf(ps[1].h, List(fs)) = 1
            /\ g.s.status = "ok"
            /\ g.s.value = ps[1].content
    /\ Did("queue_report", "ok") =>
         LET g == Outcome("get_queued_report", ps[1].h, <<>>, fs)
         IN /\ CountOf(ps[1].h, ListQueued(fs)) = 1
            /\ g.s.status = "ok"
            /\ g.s.value = ps[1].content
\* A store of one byte has returned, after time has passed, in a store that
\* then lists two hashes.
C6_Witness ==
    /\ Did("store_report", "ok")
    /\ now > 0
    /\ Stat(fs, ReportFile(ps[1].h)).st_mtime = now
    /\ ps[1].content = Blob(1)
    /\ Len(List(fs)) = 2

\* C7: promote(h) of a hash that is not queued raises the queued-not-found
\* error and changes neither partition, also when h is already committed.
C7_PromotePrecondition ==
    \A h \in Hashes :
        ~PathExists(fs, QueueFile(h)) =>
            LET d == Outcome("dequeue_report", h, <<>>, fs)
            IN /\ d.s.status = "QueuedReportNotFoundError"
               /\ d.s.value = h
               /\ d.F = fs
\* A promote of a committed, no longer queued hash has raised.
C7_Witness ==
    /\ Did("dequeue_report", "QueuedReportNotFoundError")
    /\ PathExists(fs, ReportFile(ps[1].h))

\* C8: get(h) of a hash that is not committed raises NotFound carrying h,
\* get_queued(h) of a hash that is not queued raises the queued NotFound;
\* delete(h) and delete_queued(h) of an absent hash return and change nothing.
C8_NotFound ==
    \A h \in Hashes :
        /\ ~PathExists(fs, ReportFile(h)) =>
             LET g == Outcome("get_report", h, <<>>, fs)
                 d == Outcome("delete_report", h, <<>>, fs)
             IN /\ g.s.status = "ReportNotFoundError" /\ g.s.value = h /\ g.F = fs
                /\ d.s.status = "ok" /\ d.F = fs
        /\ ~PathExists(fs, QueueFile(h)) =>
             LET g == Outcome("get_queued_report", h, <<>>, fs)
                 d == Outcome("delete_queued_report", h, <<>>, fs)
             IN /\ g.s.status = "QueuedReportNotFoundError" /\ g.s.value = h /\ g.F = fs
                /\ d.s.status = "ok" /\ d.F = fs
\* A get of a missing hash has raised, in a store that holds another artifact.
C8_Witness ==
    /\ Did("get_report", "ReportNotFoundError")
    /\ ~PathExists(fs, ReportFile(ps[1].h))
    /\ Artifacts(fs, "reports") # {}

\* C9: stats() reports total_reports = the length of list(), queued_reports =
\* the length of list_queued(), and total_size = the sum of the byte lengths
\* of the artifacts of both partitions.
C9_StatsAccuracy ==
    LET r == Outcome("get_stats", NoHash, <<>>, fs)
    IN /\ r.s.status = "ok"
       /\ r.s.value.total_reports = Len(List(fs))
       /\ r.s.value.queued_reports = Len(ListQueued(fs))
       /\ r.s.value.total_size =
            SumSizes(fs, Artifacts(fs, "reports") \cup Artifacts(fs, "queue"))
\* stats() has returned for two stored artifacts and one queued, 5 bytes in all.
C9_Witness ==
    /\ Did("get_stats", "ok")
    /\ ps[1].value.total_reports = 2
    /\ ps[1].value.queued_reports = 1
    /\ ps[1].value.total_size = 5

\* C10, as claimed: the oldest timestamp of stats() is the write time of the
\* oldest artifact of Committed and Queued together, and is null only when
\* both partitions are empty.
C10_OldestOverBoth ==
    LET all == Artifacts(fs, "reports") \cup Artifacts(fs, "queue")
        v == Stats(fs)
    IN IF all = {} THEN v.oldest_report = None
       ELSE v.oldest_report = IsoFormat(OldestTime(fs, all))
\* C10, amended: the oldest timestamp of stats() is the write time of the
\* oldest artifact of the Committed partition alone, and is null exactly
\* when Committed is empty, whatever is queued.
C10_OldestOverCommitted ==
    LET v == Stats(fs)
    IN IF Artifacts(fs, "reports") = {} THEN v.oldest_report = None
       ELSE v.oldest_report = IsoFormat(OldestTime(fs, Artifacts(fs, "reports")))
\* stats() has returned the time of a committed artifact while an older
\* artifact sits in the queue.
C10_Witness ==
    /\ Did("get_stats", "ok")
    /\ Artifacts(fs, "reports") # {}
    /\ Artifacts(fs, "queue") # {}
    /\ ps[1].value.oldest_report = IsoFormat(OldestTime(fs, Artifacts(fs, "reports")))
    /\ OldestTime(fs, Artifacts(fs, "queue")) < OldestTime(fs, Artifacts(fs, "reports"))

\* C11: with one client, clear_reports() returns the length of list_reports()
\* as it was before the call and leaves list_reports() empty; clear_queue()
\* does the same for list_queued_reports(); on an empty partition both
\* return 0.
C11_ClearCounts ==
    LET c == Outcome("clear_reports", NoHash, <<>>, fs)
        q == Outcome("clear_queue", NoHash, <<>>, fs)
    IN /\ c.s.status = "ok"
       /\ c.s.value = Len(List(fs))
       /\ List(c.F) = <<>>
       /\ (Artifacts(fs, "reports") = {} => c.s.value = 0)
       /\ q.s.status = "ok"
       /\ q.s.value = Len(ListQueued(fs))
       /\ ListQueued(q.F) = <<>>
       /\ (Artifacts(fs, "queue") = {} => q.s.value = 0)
\* clear_reports() has returned 2 and left no report, while the queue still
\* holds an artifact.
C11_Witness ==
    /\ Did("clear_reports", "ok")
    /\ ps[1].value = 2
    /\ Artifacts(fs, "reports") = {}
    /\ Artifacts(fs, "queue") # {}

\* C12: whenever reports/<hash>.xml or queue/<hash>.xml exists, at every
\* system call of a store, a queue or a promote, of an overwrite and of a
\* write cut short by the death of the process, its permission bits are
\* exactly 0o600.
C12_RestrictivePermissions ==
    \A d \in Dirs :
        \A n \in DOMAIN fs[d] :
            n.ext = "xml" => fs[d][n].mode = 384
\* A promote is about to rename over a committed artifact that an earlier
\* call wrote, after a write that died half way.
C12_Witness ==
    /\ ps[1].op = "dequeue_report" /\ ps[1].pc = "replace"
    /\ PathExists(fs, ps[1].target)
    /\ Stat(fs, ps[1].target).st_mode = 384
    /\ crashes = 1

\* The ways the caller changes a signed tree: an attribute added, an
\* attribute value changed, the text changed.
Tamperings(tree) ==
    ({SetAttribute(tree, "tampered", "true"), SetAttribute(tree, "id", "2")}
     \cup {SetText(tree, t) : t \in Texts}) \ {tree}
SupportedKeys == {k \in PrivateKeys : k.family \in {"RSA", "EC"}}

\* C13: when verify_signature(tree, cert) is true for a signed tree, then
\* after any change of an attribute or of the text of the signed content
\* verify_signature(tree, cert) with the same certificate is false.
C13_TamperDetection ==
    \A cert \in Certificates \cup {None} :
        (Signed /\ VerifySignature(sx.tree, cert).value) =>
            \A m \in Tamperings(sx.tree) :
                LET r == VerifySignature(m, cert)
                IN r.status = "ok" /\ r.value = FALSE
\* verify_signature has returned false for a tree that was changed after the
\* same certificate had validated it.
C13_Witness ==
    /\ sx.tampered
    /\ sx.validated # None
    /\ sx.call.op = "verify_signature"
    /\ sx.call.arg.y = sx.validated.cert
    /\ sx.call.value = FALSE

\* C14: for an unsigned document and an RSA or EC key with its certificate,
\* after sign_xml(tree, key, cert) has_signature is true and
\* verify_signature(signed, cert) is true.
C14_SignRoundTrip ==
    \A key \in SupportedKeys :
    \A cert \in {c \in Certificates : c.key = PublicKeyOf(key)} :
        Unsigned =>
            LET r == SignXml(sx.tree, key, cert)
            IN /\ r.ret.status = "ok"
               /\ HasSignature(r.tree).value = TRUE
               /\ VerifySignature(r.tree, cert).value = TRUE
\* verify_signature has returned true for a tree signed with the EC key and
\* verified with that key's certificate.
C14_Witness ==
    /\ Signed /\ ~sx.tampered
    /\ sx.call.op = "verify_signature"
    /\ sx.call.value = TRUE
    /\ sx.call.arg.y = PemCert(KeyOf("k3"), FALSE)
    /\ sx.tree.sig.SignedInfo.SignatureMethod = "ecdsa-sha256"

\* C15: verify_with_public_key(tree, public_key) is true only if the
\* signature value of the tree verifies under public_key.
C15_PublicKeyIsUsed ==
    \A key \in PrivateKeys :
        LET r == VerifyWithPublicKey(sx.tree, PublicKeyOf(key))
        IN (r.status = "ok" /\ r.value = TRUE) =>
               (Signed /\ SignatureVerifies(PublicKeyOf(key), sx.tree.sig))

\* C16: verify_signature(tree, cert) returns a boolean and raises nothing,
\* for a value that is no element, an unsigned document, a changed document,
\* a certificate of another key and a text that is no certificate; it
\* returns true only when the verification of the signature succeeded.
C16_LenientNeverRaises ==
    \A cert \in Certificates \cup {None, NotPem} :
        LET r == VerifySignature(sx.tree, cert)
        IN /\ r.status = "ok"
           /\ r.value \in BOOLEAN
           /\ r.value => /\ Signed
                         /\ XMLVerifierVerify(sx.tree, cert).status = "ok"
\* verify_signature has returned false for a signed tree checked against a
\* text that is no certificate.
C16_Witness ==
    /\ Signed
    /\ sx.call.op = "verify_signature"
    /\ sx.call.arg.y = NotPem
    /\ sx.call.status = "ok"
    /\ sx.call.value = FALSE

\* C17: verify_signature_strict raises TypeError for a value that is no
\* element, ValueError ("No signature found") for an unsigned document and an
\* InvalidSignature for a signature that does not verify under the
\* certificate or whose content was changed; no two of the three are of one
\* another's class; verify_signature of an unsigned document is false.
C17_StrictDistinguishes ==
    \A cert \in Certificates :
        LET r == VerifySignatureStrict(sx.tree, cert)
            no_element == ~IsElement(sx.tree)
            no_signature == Unsigned
            bad_signature ==
                /\ Signed
                /\ \/ ~SignatureVerifies(cert.key, sx.tree.sig)
                   \/ sx.tampered
        IN /\ no_element => r.status = "TypeError"
           /\ no_signature =>
                /\ r.status = "ValueError"
                /\ r.value = "No signature found in XML document"
                /\ VerifySignature(sx.tree, cert).value = FALSE
           /\ bad_signature =>
                /\ IsInstance(r.status, "InvalidSignature")
                /\ ~IsInstance(r.status, "ValueError")
                /\ ~IsInstance(r.status, "TypeError")
           /\ (no_element \/ no_signature) =>
                ~IsInstance(r.status, "InvalidSignature")
           /\ no_element => ~IsInstance(r.status, "ValueError")
           /\ no_signature => ~IsInstance(r.status, "TypeError")
\* verify_signature_strict has raised for a changed document, with the
\* certificate of the signing key.
C17_Witness ==
    /\ sx.tampered
    /\ sx.call.op = "verify_signature_strict"
    /\ sx.call.status = "InvalidDigest"
    /\ sx.call.arg.y # None
    /\ sx.call.arg.y # NotPem
    /\ SignatureVerifies(sx.call.arg.y.key, sx.tree.sig)

\* C18, as claimed: compute_canonical_hash gives the same hash for the
\* unsigned tree and for the tree after sign_xml, whichever key signs.
C18_HashIgnoresSignature ==
    \A key \in SupportedKeys, cert \in Certificates \cup {None} :
        Unsigned =>
            ComputeCanonicalHash(SignXml(sx.tree, key, cert).tree, "sha256").value
                = ComputeCanonicalHash(sx.tree, "sha256").value
\* C18, amended: compute_canonical_hash covers the whole tree, the Signature
\* element included.  The hash of the unsigned tree is a function of its
\* canonical content alone; the hash of the tree after sign_xml differs from
\* it, and differs between two signing keys.
C18_HashCoversSignature ==
    Unsigned =>
        LET h0 == ComputeCanonicalHash(sx.tree, "sha256") IN
        /\ h0.status = "ok"
        /\ \A d \in Documents :
             (C14N(d) = C14N(sx.tree))
                 <=> (ComputeCanonicalHash(d, "sha256").value = h0.value)
        /\ \A k1 \in SupportedKeys, k2 \in SupportedKeys :
           \A cert \in Certificates \cup {None} :
             LET h1 == ComputeCanonicalHash(SignXml(sx.tree, k1, cert).tree, "sha256")
                 h2 == ComputeCanonicalHash(SignXml(sx.tree, k2, cert).tree, "sha256")
             IN /\ h1.status = "ok"
                /\ h1.value # h0.value
                /\ (k1 # k2) => (h1.value # h2.value)
\* The hash of a signed tree has been computed: it is not the hash of the
\* content that was signed.
C18_Witness ==
    /\ Signed /\ ~sx.tampered
    /\ sx.call.op = "compute_canonical_hash"
    /\ sx.call.status = "ok"
    /\ sx.call.value # HexDigest("sha256", EnvelopedContent(sx.tree))
    /\ sx.call.value.algorithm = "sha256"

\* C19: sign_xml signs with rsa-sha256 for every RSA key and ecdsa-sha256 for
\* every EC key, with a sha256 digest; for a key of another family it raises
\* ValueError ("Unsupported key type") and leaves the document as it was.
C19_AlgorithmSelection ==
    \A key \in PrivateKeys, cert \in Certificates \cup {None} :
        Unsigned =>
            LET r == SignXml(sx.tree, key, cert) IN
            IF key.family \in {"RSA", "EC"}
            THEN /\ r.ret.status = "ok"
                 /\ r.tree.sig.SignedInfo.SignatureMethod =
                      (IF key.family = "RSA" THEN "rsa-sha256" ELSE "ecdsa-sha256")
                 /\ r.tree.sig.SignedInfo.DigestMethod = "sha256"
            ELSE /\ r.ret.status = "ValueError"
                 /\ r.ret.value = "Unsupported key type"
                 /\ r.tree = sx.tree
\* sign_xml has raised for the Ed25519 key and the tree has no signature.
C19_Witness ==
    /\ Unsigned
    /\ sx.call.op = "sign_xml"
    /\ sx.call.status = "ValueError"
    /\ sx.call.arg.x.family = "Ed25519"

\* C20: load_private_key and load_certificate raise FileNotFoundError for a
\* source that names a missing file, a Path object as well as a str that the
\* heuristic takes for a path; a source that does not parse, or a key of an
\* unsupported family, raises ValueError.
C20_MissingPathIsNotFound ==
    sx.call.op \in {"load_private_key", "load_certificate"} =>
        LET source == sx.call.arg.x
            as_path == source.type = "Path" \/ (source.type = "str" /\ LooksLikePath(source))
        IN IF as_path /\ ~SourceExists(source.path)
           THEN sx.call.status = "FileNotFoundError"
           ELSE sx.call.status \in {"ok", "ValueError"}

\* C21: two trees that differ only in the order in which the attributes
\* appear on an element have the same canonical form, and the same canonical
\* hash under every algorithm; a hash that a compute_canonical_hash call
\* returned is the hash of every reordering of the tree it was given.
Reorderings(tree) ==
    {[tree EXCEPT !.attrib = [i \in DOMAIN tree.attrib |-> tree.attrib[p[i]]]] :
        p \in Permutations(DOMAIN tree.attrib)}
C21_AttributeOrderInvariance ==
    IsElement(sx.tree) =>
        \A other \in Reorderings(sx.tree) :
            /\ CanonicalizeXml(other) = CanonicalizeXml(sx.tree)
            /\ \A algorithm \in HashlibAlgorithms :
                   ComputeCanonicalHash(other, algorithm)
                     = ComputeCanonicalHash(sx.tree, algorithm)
            /\ (sx.call.op = "compute_canonical_hash" /\ sx.call.status = "ok")
                 => sx.call.value
                      = ComputeCanonicalHash(other, sx.call.arg.x.name).value
\* A hash was computed for a tree that has a reordering different from it.
C21_Witness ==
    /\ IsElement(sx.tree)
    /\ sx.call.op = "compute_canonical_hash" /\ sx.call.status = "ok"
    /\ \E other \in Reorderings(sx.tree) :
          /\ other.attrib # sx.tree.attrib
          /\ sx.call.value = ComputeCanonicalHash(other, sx.call.arg.x.name).value

\* C22: whatever calls of set(), load_from_dict(), load_from_env(),
\* load_from_file() and load_from_toml() were made, in whatever order,
\* get(key) returns the value of the highest-precedence source that supplied
\* a valid value for the key: set() > load_from_dict > environment >
\* configuration files > schema defaults.
C22_Precedence ==
    \A key \in DOMAIN ConfigSchema :
        Get(cfg, key) = Returned(cfg.best[key].value)

\* C30: a batch loader raises nothing; a key for which the batch has no
\* valid entry keeps its value and its recorded source, and a key for which
\* it has one gets the validated value of the last such entry, with the
\* batch as its source.  set() with an invalid value raises
\* ConfigValidationError and changes nothing.
BatchOf(call) ==
    CASE call.op = "load_from_dict" ->
           [entries |-> call.arg.x, source |-> Source("dict", "-")]
      [] call.op = "load_from_env" ->
           [entries |-> EnvEntries(call.arg.x), source |-> Source("env", "-")]
      [] call.op = "load_from_file" ->
           [entries |-> IniEntries(call.arg.x), source |-> Source("file", call.arg.x)]
      [] call.op = "load_from_toml" ->
           [entries |-> TomlEntries(call.arg.x), source |-> Source("toml", call.arg.x)]
C30_Step ==
    LET call == cfg'.call IN
    /\ call.op \in {"load_from_dict", "load_from_env", "load_from_file", "load_from_toml"}
       => /\ call.status = "ok"
          /\ \A key \in DOMAIN ConfigSchema :
               LET valid == SelectSeq(BatchOf(call).entries,
                                      LAMBDA e : e.k = key /\ ValidEntry(e))
                   last == valid[Len(valid)] IN
               IF valid = <<>>
               THEN /\ cfg'.config[key] = cfg.config[key]
                    /\ cfg'.sources[key] = cfg.sources[key]
               ELSE /\ cfg'.config[key]
                         = ValidateValue(key, last.v, ConfigSchema[key]).value
                    /\ cfg'.sources[key].kind = BatchOf(call).source.kind
    /\ (/\ call.op = "set"
        /\ call.arg.x \in DOMAIN ConfigSchema
        /\ ~ValidEntry([k |-> call.arg.x, v |-> call.arg.y]))
       => /\ call.status = "ConfigValidationError"
          /\ cfg'.config = cfg.config
          /\ cfg'.sources = cfg.sources
C30_BatchSkipsBadEntries == [][C30_Step]_vars

\* C23: with no other call on h under way, the bytes queued under h can be
\* read back, from Queued or from Committed, after every system call of
\* promote(h) and after a crash of the process at any of them.
Retrievable(F, h, b) ==
    \/ LET g == Outcome("get_queued_report", h, <<>>, F)
       IN g.s.status = "ok" /\ g.s.value = b
    \/ LET g == Outcome("get_report", h, <<>>, F)
       IN g.s.status = "ok" /\ g.s.value = b
C23_Step ==
    \A h \in ConcHashes :
        (/\ ps[1].op = "dequeue_report" /\ ps[1].h = h /\ Running(1)
         /\ PathExists(fs, QueueFile(h)))
        => Retrievable(fs', h, ReadBytes(fs, QueueFile(h)))
C23_PromoteNeverLoses == [][C23_Step]_vars
\* The process died inside promote(h), at its delete from Queued or before
\* its rename into Committed, and the queued bytes are still there.
C23_Witness ==
    /\ ps[1].pc = "idle" /\ crashed.op = "dequeue_report"
    /\ crashed.pc \in {"write", "replace", "unlink"}
    /\ PathExists(fs, QueueFile(crashed.h))
    /\ Retrievable(fs, crashed.h, ReadBytes(fs, QueueFile(crashed.h)))

\* C24: h is queued and two clients call promote(h) concurrently; once both
\* calls have ended, exactly one has returned and the other has raised, h is
\* in Committed with the queued bytes, and h is not in Queued.
C24_PromoteExactlyOnce ==
    \A h \in ConcHashes :
        (/\ PathExists(fs0, QueueFile(h))
         /\ \A p \in Procs : ps[p].pc = "done" /\ ps[p].op = "dequeue_report" /\ ps[p].h = h)
        => /\ Cardinality({p \in Procs : ps[p].status = "ok"}) = 1
           /\ \A p \in Procs :
                ps[p].status \in {"ok", "QueuedReportNotFoundError", "StorageWriteError"}
           /\ PathExists(fs, ReportFile(h))
           /\ ReadBytes(fs, ReportFile(h)) = ReadBytes(fs0, QueueFile(h))
           /\ ~PathExists(fs, QueueFile(h))
\* Both promotions found h queued and wrote it; one removed the queue entry,
\* the other found it gone.
C24_Witness ==
    /\ PathExists(fs0, QueueFile("h1"))
    /\ \A p \in Procs : ps[p].pc = "done" /\ ps[p].op = "dequeue_report"
    /\ \E p \in Procs : ps[p].status = "ok"
    /\ \E p \in Procs : ps[p].status = "StorageWriteError"
    /\ PathExists(fs, ReportFile("h1"))
    /\ ReadBytes(fs, ReportFile("h1")) = ReadBytes(fs0, QueueFile("h1"))

\* C25: when a system call of the atomic write of store(b, h) or queue(b, h)
\* fails, the call raises StorageWriteError carrying the target path, no
\* temporary file is left in either directory, and the target (as every
\* other file) is as it was before the call; a promote whose write fails
\* raises the same error and leaves both partitions as they were.
TargetOf(s) == IF s.op = "queue_report" THEN QueueFile(s.h) ELSE ReportFile(s.h)
C25_Step ==
    LET s == ps'[1] IN
    (/\ s.pc = "done" /\ s.fault # "-"
     /\ s.op = "dequeue_report" => PathExists(fs, QueueFile(s.h)))
    => /\ s.status = "StorageWriteError"
       /\ s.value = TargetOf(s)
       /\ \A d \in Dirs : \A n \in DOMAIN fs'[d] : n.ext = "xml"
       /\ PathExists(fs', TargetOf(s)) = PathExists(fs, TargetOf(s))
       /\ fs' = fs
C26_DescriptorsClosed == ps[1].pc = "done" => ~ps[1].fd

\* C27: stats(), clear() and clear_queue() that run while another call
\* removes files they have enumerated complete without raising; two
\* concurrent clear() calls return counts whose sum is the number of
\* artifacts removed.
C27_SafeUnderRemoval ==
    /\ \A p \in Procs :
         (ps[p].pc = "done" /\ ps[p].op \in {"get_stats", "clear_reports", "clear_queue"})
         => ps[p].status = "ok"
    /\ (\A p \in Procs : ps[p].pc = "done" /\ ps[p].op = "clear_reports")
       => ps[1].status = "ok" /\ ps[2].status = "ok"
          /\ ps[1].value + ps[2].value
               = Cardinality(Artifacts(fs0, "reports")) - Cardinality(Artifacts(fs, "reports"))

\* Hash strings a caller can pass: hex digests, the empty string, and
\* strings with path components.
AnyHashes == Hashes \cup {""} \cup DOMAIN Traversal

\* C28: whatever hash string the caller passes, store, get, delete and clear
\* leave Queued as it is, and queue, get_queued, delete_queued and
\* clear_queue leave Committed as it is.
C28_PartitionIndependence ==
    /\ \A h \in AnyHashes, c \in Contents :
         /\ \A op \in {"store_report", "get_report", "delete_report"} :
              Outcome(op, h, c, fs).F["queue"] = fs["queue"]
         /\ \A op \in {"queue_report", "get_queued_report", "delete_queued_report"} :
              Outcome(op, h, c, fs).F["reports"] = fs["reports"]
    /\ Outcome("clear_reports", NoHash, <<>>, fs).F["queue"] = fs["queue"]
    /\ Outcome("clear_queue", NoHash, <<>>, fs).F["reports"] = fs["reports"]

\* C29: in a quiescent state, for every hash the store accepted, h is in
\* list() iff exists(h) iff get(h) returns, and the same for the queue; no
\* listing contains the name of a temporary file.
Agree(F, h, list, exists, get) ==
    /\ (CountOf(h, Outcome(list, NoHash, <<>>, F).s.value) > 0)
         <=> Outcome(exists, h, <<>>, F).s.value
    /\ Outcome(exists, h, <<>>, F).s.value
         <=> (Outcome(get, h, <<>>, F).s.status = "ok")
C29_ListingAgreesWithExistence ==
    /\ \A h \in AnyHashes :
         /\ Agree(fs, h, "list_reports", "report_exists", "get_report")
         /\ Agree(fs, h, "list_queued_reports", "queued_report_exists", "get_queued_report")
    /\ \A h \in AnyHashes, c \in Contents :
         /\ LET st == Outcome("store_report", h, c, fs) IN
            st.s.status = "ok"
              => Agree(st.F, h, "list_reports", "report_exists", "get_report")
         /\ LET st == Outcome("queue_report", h, c, fs) IN
            st.s.status = "ok"
              => Agree(st.F, h, "list_queued_reports", "queued_report_exists",
                       "get_queued_report")
    /\ \A i \in DOMAIN TempStems :
         /\ CountOf(TempStems[i], List(fs)) = 0
         /\ CountOf(TempStems[i], ListQueued(fs)) = 0

====
